---- MODULE Spec2Model ----
(***************************************************************************)
(* Model of the Obsidian vault importer                                    *)
(* (src/pi/skills/obsidian-import/obsidian_import.py).                     *)
(*                                                                         *)
(* Text is a sequence of one-character strings, so that slicing, stripping *)
(* and searching are computed as the Python code computes them.            *)
(***************************************************************************)
EXTENDS Integers, Sequences, FiniteSets, TLC

\* ------------------------------------------------------------------------
\* Python string primitives
\* ------------------------------------------------------------------------

SetMin(S) == CHOOSE x \in S : \A y \in S : x <= y
SetMax(S) == 0 - SetMin({0 - x : x \in S})

\* the numbers of lo..hi that satisfy Test, in increasing order
Positions(lo, hi, Test(_)) ==
    IF hi < lo THEN <<>>
    ELSE SelectSeq([i \in 1..(hi - lo + 1) |-> lo + i - 1], Test)

\* a value that is no character: marks a position to be dropped
DROP == ""
IsKept(c) == c # DROP

\* str.isspace() / regex \s on the characters the model uses
IsSpace(c) == c \in {" ", "\n", "\t"}

UpperChars == <<"A", "B", "C", "D", "E", "F", "G", "H", "I", "J", "K", "L", "M",
                "N", "O", "P", "Q", "R", "S", "T", "U", "V", "W", "X", "Y", "Z">>
LowerChars == <<"a", "b", "c", "d", "e", "f", "g", "h", "i", "j", "k", "l", "m",
                "n", "o", "p", "q", "r", "s", "t", "u", "v", "w", "x", "y", "z">>
DigitChars == <<"0", "1", "2", "3", "4", "5", "6", "7", "8", "9">>

IsLowerAlpha(c) == \E i \in 1..26 : LowerChars[i] = c
IsUpperAlpha(c) == \E i \in 1..26 : UpperChars[i] = c
IsDigit(c) == \E i \in 1..10 : DigitChars[i] = c
IsAlpha(c) == IsLowerAlpha(c) \/ IsUpperAlpha(c)

LowerChar(c) ==
    IF IsUpperAlpha(c)
    THEN LowerChars[CHOOSE i \in 1..26 : UpperChars[i] = c]
    ELSE c

\* str.lower()
Lower(s) == [i \in 1..Len(s) |-> LowerChar(s[i])]

\* s[a:b] with 0-based non-negative a, b (Python slice, clipped to the string)
Slice(s, a, b) ==
    LET lo == IF a < 0 THEN 0 ELSE a
        hi == IF b > Len(s) THEN Len(s) ELSE b
    IN  IF lo >= hi THEN <<>> ELSE SubSeq(s, lo + 1, hi)

\* s[a:]
SliceFrom(s, a) == Slice(s, a, Len(s))

\* str.strip(): leading and trailing whitespace removed
Strip(s) ==
    LET keep == {i \in 1..Len(s) : ~IsSpace(s[i])}
    IN  IF keep = {} THEN <<>> ELSE SubSeq(s, SetMin(keep), SetMax(keep))

\* str.strip(chars) for a set of characters
StripChars(s, cs) ==
    LET keep == {i \in 1..Len(s) : s[i] \notin cs}
    IN  IF keep = {} THEN <<>> ELSE SubSeq(s, SetMin(keep), SetMax(keep))

\* str.lstrip(chars)
LStripChars(s, cs) ==
    LET keep == {i \in 1..Len(s) : s[i] \notin cs}
    IN  IF keep = {} THEN <<>> ELSE SubSeq(s, SetMin(keep), Len(s))

\* pat occurs in s at 0-based offset i
OccursAt(s, pat, i) ==
    /\ i >= 0
    /\ i + Len(pat) <= Len(s)
    /\ \A k \in 1..Len(pat) : s[i + k] = pat[k]

\* 0-based offsets at which pat occurs in s
Occurrences(s, pat) == {i \in 0..(Len(s) - Len(pat)) : OccursAt(s, pat, i)}

\* str.find(pat): lowest offset or -1
Find(s, pat) ==
    IF Occurrences(s, pat) = {} THEN -1 ELSE SetMin(Occurrences(s, pat))

\* str.rfind(pat): highest offset or -1
RFind(s, pat) ==
    IF Occurrences(s, pat) = {} THEN -1 ELSE SetMax(Occurrences(s, pat))

\* pat in s
Contains(s, pat) == Occurrences(s, pat) # {}

StartsWith(s, pat) == OccursAt(s, pat, 0)
EndsWith(s, pat) == OccursAt(s, pat, Len(s) - Len(pat))

\* str.removesuffix(suf)
RemoveSuffix(s, suf) ==
    IF Len(suf) > 0 /\ EndsWith(s, suf) THEN Slice(s, 0, Len(s) - Len(suf)) ELSE s

\* the offsets where str.split(sep) cuts: the leftmost non-overlapping
\* occurrences. For a separator of one or two characters an occurrence
\* overlaps only the one right before it, so the occurrences of a run of
\* consecutive offsets are taken alternately, starting with the first.
SplitCuts(s, sep) ==
    LET IsOcc(i) == OccursAt(s, sep, i)
        RunBefore(i) ==
            LET gaps == {j \in 0..(i - 1) : ~IsOcc(j)}
            IN  i - (IF gaps = {} THEN -1 ELSE SetMax(gaps)) - 1
        IsCut(i) == IsOcc(i) /\ (Len(sep) = 1 \/ RunBefore(i) % 2 = 0)
    IN  Positions(0, Len(s) - Len(sep), IsCut)

\* str.split(sep) for a separator of one or two characters
Split(s, sep) ==
    LET cuts == SplitCuts(s, sep)
    IN  [k \in 1..(Len(cuts) + 1) |->
            Slice(s,
                  IF k = 1 THEN 0 ELSE cuts[k - 1] + Len(sep),
                  IF k <= Len(cuts) THEN cuts[k] ELSE Len(s))]

\* sep.join(parts)
RECURSIVE Join(_, _)
Join(parts, sep) ==
    IF Len(parts) = 0 THEN <<>>
    ELSE IF Len(parts) = 1 THEN parts[1]
    ELSE parts[1] \o sep \o Join(Tail(parts), sep)

\* str(n) for n >= 0
RECURSIVE IntToStr(_)
IntToStr(n) ==
    IF n < 10 THEN <<DigitChars[n + 1]>>
    ELSE IntToStr(n \div 10) \o <<DigitChars[(n % 10) + 1]>>

\* the length of the longest run of characters satisfying Test that starts
\* at offset i of s
RunWhile(s, i, Test(_)) ==
    LET stops == {j \in i..(Len(s) - 1) : ~Test(s[j + 1])}
    IN  (IF stops = {} THEN (IF i > Len(s) THEN i ELSE Len(s)) ELSE SetMin(stops)) - i

\* ------------------------------------------------------------------------
\* Text utilities: slugify, make_chunk_id
\* ------------------------------------------------------------------------

\* characters kept by re.sub(r"[^a-z0-9\s\-/]", "", text)
SlugKeep(c) == IsLowerAlpha(c) \/ IsDigit(c) \/ IsSpace(c) \/ c = "-" \/ c = "/"

DropNonSlug(s) == SelectSeq(s, SlugKeep)

\* re.sub(r"[\s_]+", "-", text): every maximal run of whitespace/underscore
\* becomes one hyphen
IsSpaceOrUnderscore(c) == IsSpace(c) \/ c = "_"

SpacesToHyphen(s) ==
    SelectSeq([i \in 1..Len(s) |->
                 IF ~IsSpaceOrUnderscore(s[i]) THEN s[i]
                 ELSE IF i < Len(s) /\ IsSpaceOrUnderscore(s[i + 1]) THEN DROP
                 ELSE "-"],
              IsKept)

\* re.sub(r"-+", "-", text)
CollapseHyphens(s) ==
    SelectSeq([i \in 1..Len(s) |->
                 IF s[i] = "-" /\ i < Len(s) /\ s[i + 1] = "-" THEN DROP ELSE s[i]],
              IsKept)

slugify(text) ==
    StripChars(CollapseHyphens(SpacesToHyphen(DropNonSlug(Strip(Lower(text))))),
               {"-"})

DotMd == <<".", "m", "d">>
ColonColon == <<":", ":">>
ChunkSuffix == <<":", ":", "c", "h", "u", "n", "k", "-">>

\* make_chunk_id with the suffix test of line 84 off by one
make_chunk_id_always_suffixed(filepath_rel, heading_path, chunk_index, total_chunks) ==
    LET file_slug == slugify(RemoveSuffix(filepath_rel, DotMd))
        heading_slug == IF heading_path # <<>> THEN slugify(heading_path) ELSE <<>>
        base_id == IF heading_slug # <<>>
                   THEN file_slug \o ColonColon \o heading_slug
                   ELSE file_slug \o ColonColon
    IN  IF total_chunks >= 1
        THEN base_id \o ChunkSuffix \o IntToStr(chunk_index)
        ELSE base_id

make_chunk_id(filepath_rel, heading_path, chunk_index, total_chunks) ==
    LET file_slug == slugify(RemoveSuffix(filepath_rel, DotMd))
        heading_slug == IF heading_path # <<>> THEN slugify(heading_path) ELSE <<>>
        base_id == IF heading_slug # <<>>
                   THEN file_slug \o ColonColon \o heading_slug
                   ELSE file_slug \o ColonColon
    IN  IF total_chunks > 1
        THEN base_id \o ChunkSuffix \o IntToStr(chunk_index)
        ELSE base_id

\* ------------------------------------------------------------------------
\* Chunking: chunk_text
\* ------------------------------------------------------------------------

ParaSep == <<"\n", "\n">>
SentenceBreak == <<".", " ">>

IsSentenceEnd(c) == c \in {".", "!", "?"}

\* re.split(r"(?<=[.!?])\s+", para): cut at every maximal whitespace run that
\* directly follows ., ! or ?
split_sentences(para) ==
    LET IsCut(i) == i >= 1 /\ IsSpace(para[i + 1]) /\ IsSentenceEnd(para[i])
        cuts == Positions(1, Len(para) - 1, IsCut)
    IN  [k \in 1..(Len(cuts) + 1) |->
            Slice(para,
                  IF k = 1 THEN 0
                  ELSE cuts[k - 1] + RunWhile(para, cuts[k - 1], IsSpace),
                  IF k <= Len(cuts) THEN cuts[k] ELSE Len(para))]

\* the overlap tail kept from a flushed chunk (lines 317-321)
overlap_tail(current, overlap) ==
    LET tail == SliceFrom(current, Len(current) - overlap)
        sentence_break == RFind(tail, SentenceBreak)
    IN  IF sentence_break > 0 THEN SliceFrom(tail, sentence_break + 2) ELSE tail

\* the sentence loop of lines 327-335; st = [chunks, current]
RECURSIVE sentence_loop(_, _, _)
sentence_loop(sentences, st, max_size) ==
    IF sentences = <<>> THEN st
    ELSE LET sent == Head(sentences)
             candidate == IF st.current # <<>>
                          THEN Strip(st.current \o <<" ">> \o sent)
                          ELSE sent
             nxt == IF Len(candidate) <= max_size
                    THEN [chunks |-> st.chunks, current |-> candidate]
                    ELSE [chunks |-> IF st.current # <<>>
                                     THEN Append(st.chunks, st.current)
                                     ELSE st.chunks,
                          current |-> sent]
         IN  sentence_loop(Tail(sentences), nxt, max_size)

\* one iteration of the paragraph loop, lines 308-335
para_step(st, para, max_size, overlap) ==
    LET current == st.current
        candidate == IF current # <<>>
                     THEN Strip(current \o ParaSep \o para)
                     ELSE para
    IN  IF Len(candidate) <= max_size
        THEN [chunks |-> st.chunks, current |-> candidate]
        ELSE IF current # <<>>
             THEN [chunks |-> Append(st.chunks, current),
                   current |-> IF overlap > 0 /\ Len(current) > overlap
                               THEN Strip(overlap_tail(current, overlap)
                                          \o ParaSep \o para)
                               ELSE para]
             ELSE sentence_loop(split_sentences(para), st, max_size)

\* the paragraph loop of lines 308-335 (the test on st has TLC evaluate the
\* state of an iteration before it enters the next)
RECURSIVE para_loop(_, _, _, _)
para_loop(paragraphs, st, max_size, overlap) ==
    IF paragraphs = <<>> \/ st # st THEN st
    ELSE para_loop(Tail(paragraphs),
                   para_step(st, Head(paragraphs), max_size, overlap),
                   max_size, overlap)

\* the packing without lines 337-338: what is left in current after the
\* last paragraph is not appended
chunk_oversized_no_tail(text, max_size, overlap) ==
    para_loop(Split(text, ParaSep),
              [chunks |-> <<>>, current |-> <<>>], max_size, overlap).chunks

\* lines 304-340: the packing of a text longer than max_size
chunk_oversized(text, max_size, overlap) ==
    LET st == para_loop(Split(text, ParaSep),
                        [chunks |-> <<>>, current |-> <<>>], max_size, overlap)
    IN  IF st.current # <<>> THEN Append(st.chunks, st.current) ELSE st.chunks

\* chunk_text with the size test of line 301 made strict
chunk_text_strict(text, max_size, overlap) ==
    IF Len(text) < max_size THEN <<text>>
    ELSE chunk_oversized(text, max_size, overlap)

chunk_text(text, max_size, overlap) ==
    IF Len(text) <= max_size THEN <<text>>
    ELSE chunk_oversized(text, max_size, overlap)

\* ------------------------------------------------------------------------
\* Ordering of strings (sorted() on str compares code points)
\* ------------------------------------------------------------------------

\* the backtick character (U+0060), which a TLA+ string literal cannot hold
BT == "BACKTICK"

AsciiChars == <<"\t", "\n", " ", "!", "#", "$", "%", "&", "'", "(", ")", "*", "+", ",",
                "-", ".", "/", "0", "1", "2", "3", "4", "5", "6", "7", "8", "9", ":",
                ";", "<", "=", ">", "?", "@", "A", "B", "C", "D", "E", "F", "G", "H",
                "I", "J", "K", "L", "M", "N", "O", "P", "Q", "R", "S", "T", "U", "V",
                "W", "X", "Y", "Z", "[", "]", "^", "_", BT, "a", "b", "c", "d",
                "e", "f", "g", "h", "i", "j", "k", "l", "m", "n", "o", "p", "q", "r",
                "s", "t", "u", "v", "w", "x", "y", "z", "{", "|", "}", "~">>

Ord(c) == CHOOSE i \in 1..Len(AsciiChars) : AsciiChars[i] = c

\* a < b for str
RECURSIVE StrLess(_, _)
StrLess(a, b) ==
    IF b = <<>> THEN FALSE
    ELSE IF a = <<>> THEN TRUE
    ELSE IF Head(a) = Head(b) THEN StrLess(Tail(a), Tail(b))
    ELSE Ord(Head(a)) < Ord(Head(b))

\* sorted(set(...)) of strings
RECURSIVE SortedStrings(_)
SortedStrings(S) ==
    IF S = {} THEN <<>>
    ELSE LET m == CHOOSE a \in S : \A b \in S \ {a} : StrLess(a, b)
         IN  <<m>> \o SortedStrings(S \ {m})

SeqToSet(q) == {q[i] : i \in 1..Len(q)}

\* the order-preserving de-duplication loops of lines 177-184 and 190-197
RECURSIVE Dedup(_, _)
Dedup(q, seen) ==
    IF q = <<>> THEN <<>>
    ELSE IF Head(q) \in seen THEN Dedup(Tail(q), seen)
    ELSE <<Head(q)>> \o Dedup(Tail(q), seen \cup {Head(q)})

\* ------------------------------------------------------------------------
\* Metadata values: a type tag and str(value)
\* ------------------------------------------------------------------------

TrueStr == <<"T", "r", "u", "e">>
FalseStr == <<"F", "a", "l", "s", "e">>
NoneStr == <<"N", "o", "n", "e">>

MStr(s) == [t |-> "str", v |-> s]
MInt(n) == [t |-> "int", v |-> IntToStr(n)]
MBool(b) == [t |-> "bool", v |-> IF b THEN TrueStr ELSE FalseStr]
MList(items) == [t |-> "list", v |-> items]
MNone == [t |-> "none", v |-> NoneStr]
MDict == [t |-> "dict", v |-> <<"{", "}">>]

IsScalar(val) == val.t \in {"str", "int", "float", "bool"}

K_source_file == <<"s", "o", "u", "r", "c", "e", "_", "f", "i", "l", "e">>
K_heading_path == <<"h", "e", "a", "d", "i", "n", "g", "_", "p", "a", "t", "h">>
K_heading_level == <<"h", "e", "a", "d", "i", "n", "g", "_", "l", "e", "v", "e", "l">>
K_chunk_index == <<"c", "h", "u", "n", "k", "_", "i", "n", "d", "e", "x">>
K_total_chunks == <<"t", "o", "t", "a", "l", "_", "c", "h", "u", "n", "k", "s">>
K_char_count == <<"c", "h", "a", "r", "_", "c", "o", "u", "n", "t">>
K_has_table == <<"h", "a", "s", "_", "t", "a", "b", "l", "e">>
K_has_code == <<"h", "a", "s", "_", "c", "o", "d", "e">>
K_imported_at == <<"i", "m", "p", "o", "r", "t", "e", "d", "_", "a", "t">>
K_tags == <<"t", "a", "g", "s">>
K_links == <<"l", "i", "n", "k", "s">>
FmPrefix == <<"f", "m", "_">>
CommaSpace == <<",", " ">>

\* dict.update
MapUpdate(m, f) ==
    [k \in (DOMAIN m) \cup (DOMAIN f) |-> IF k \in DOMAIN f THEN f[k] ELSE m[k]]

EmptyMap == [k \in {} |-> MNone]

\* ------------------------------------------------------------------------
\* Front matter flattening
\* ------------------------------------------------------------------------

RECURSIVE SelectScalarStrs(_)
SelectScalarStrs(items) ==
    IF items = <<>> THEN <<>>
    ELSE (IF IsScalar(Head(items)) THEN <<Head(items).v>> ELSE <<>>)
         \o SelectScalarStrs(Tail(items))

\* frontmatter keys that survive flattening
FlatKeys(fm) ==
    {k \in DOMAIN fm :
        \/ IsScalar(fm[k])
        \/ fm[k].t = "list" /\ SelectScalarStrs(fm[k].v) # <<>>}

\* flatten_frontmatter with the keys of the front matter kept as they are
flatten_frontmatter_bare(fm) ==
    [k \in FlatKeys(fm) |->
        IF IsScalar(fm[k]) THEN fm[k]
        ELSE MStr(Join(SelectScalarStrs(fm[k].v), CommaSpace))]

flatten_frontmatter(fm) ==
    [fk \in {FmPrefix \o k : k \in FlatKeys(fm)} |->
        LET k == SliceFrom(fk, 3)
        IN  IF IsScalar(fm[k]) THEN fm[k]
            ELSE MStr(Join(SelectScalarStrs(fm[k].v), CommaSpace))]

\* ------------------------------------------------------------------------
\* Tag and link extraction
\* ------------------------------------------------------------------------

Fence == <<BT, BT, BT>>

\* offset i (0-based) is the start of a line: ^ under re.MULTILINE
IsLineStart(s, i) == i = 0 \/ (i >= 1 /\ i <= Len(s) /\ s[i] = "\n")

\* CODE_FENCE.sub("", text): the three backticks at the start of a line go
strip_code_fences(s) ==
    LET IsFence(f) == IsLineStart(s, f) /\ OccursAt(s, Fence, f)
    IN  SelectSeq([i \in 1..Len(s) |->
                     IF IsFence(i - 1) \/ IsFence(i - 2) \/ IsFence(i - 3)
                     THEN DROP ELSE s[i]],
                  IsKept)

IsTagBody(c) == IsAlpha(c) \/ IsDigit(c) \/ c \in {"_", "/", "-"}

\* TAG_PATTERN.findall(cleaned): a "#" at a line start or after whitespace,
\* followed by a letter, captures the run of tag characters after it
find_tags(cleaned) ==
    LET IsTagStart(q) ==
            /\ cleaned[q + 1] = "#"
            /\ IsAlpha(cleaned[q + 2])
            /\ (IsLineStart(cleaned, q) \/ (q >= 1 /\ IsSpace(cleaned[q])))
        starts == Positions(0, Len(cleaned) - 2, IsTagStart)
    IN  [k \in 1..Len(starts) |->
            Slice(cleaned, starts[k] + 1,
                  starts[k] + 1 + RunWhile(cleaned, starts[k] + 1, IsTagBody))]

LowerAll(q) == [i \in 1..Len(q) |-> Lower(q[i])]

extract_inline_tags(text) ==
    Dedup(LowerAll(find_tags(strip_code_fences(text))), {})

IsLinkTarget(c) == c \notin {"]", "|"}
IsLinkAlias(c) == c # "]"

OpenLink == <<"[", "[">>
CloseLink == <<"]", "]">>

\* LINK_PATTERN matched at offset p: [target, end] or end = -1
link_match(s, p) ==
    LET n1 == RunWhile(s, p + 2, IsLinkTarget)
        e1 == p + 2 + n1
        n2 == RunWhile(s, e1 + 1, IsLinkAlias)
        e2 == e1 + 1 + n2
    IN  IF ~OccursAt(s, OpenLink, p) \/ n1 = 0 THEN [target |-> <<>>, end |-> -1]
        ELSE IF OccursAt(s, CloseLink, e1)
             THEN [target |-> Slice(s, p + 2, e1), end |-> e1 + 2]
        ELSE IF e1 < Len(s) /\ s[e1 + 1] = "|" /\ n2 > 0 /\ OccursAt(s, CloseLink, e2)
             THEN [target |-> Slice(s, p + 2, e1), end |-> e2 + 2]
        ELSE [target |-> <<>>, end |-> -1]

\* of the matches found at the offsets cands (increasing), those a
\* left-to-right scan takes: each starts at or after the end of the one before
RECURSIVE take_matches(_, _, _, _)
take_matches(cands, ends, k, from) ==
    IF k > Len(cands) THEN <<>>
    ELSE IF cands[k] < from THEN take_matches(cands, ends, k + 1, from)
    ELSE <<cands[k]>> \o take_matches(cands, ends, k + 1, ends[k])

\* LINK_PATTERN.findall(text): leftmost non-overlapping matches
find_links(s) ==
    LET Matches(p) == OccursAt(s, OpenLink, p) /\ link_match(s, p).end >= 0
        cands == Positions(0, Len(s) - 4, Matches)
        ends == [k \in 1..Len(cands) |-> link_match(s, cands[k]).end]
        taken == take_matches(cands, ends, 1, 0)
    IN  [k \in 1..Len(taken) |-> link_match(s, taken[k]).target]

IsNonEmpty(q) == q # <<>>

\* [t.strip() for t in q]
StripEachKeep(q) == [i \in 1..Len(q) |-> Strip(q[i])]

StripEach(q) == SelectSeq([i \in 1..Len(q) |-> Strip(q[i])], IsNonEmpty)

extract_links(text) == Dedup(StripEach(find_links(text)), {})

\* ------------------------------------------------------------------------
\* Sections
\* ------------------------------------------------------------------------

MIN_SECTION_LENGTH == 50

Section(heading, level, content, heading_path) ==
    [heading |-> heading, level |-> level, content |-> content,
     heading_path |-> heading_path]

RECURSIVE Repeat(_, _)
Repeat(c, n) == IF n <= 0 THEN <<>> ELSE <<c>> \o Repeat(c, n - 1)

\* Section.text: the heading line, a blank line, the content
section_text(sec) ==
    IF sec.heading # <<>>
    THEN Repeat("#", sec.level) \o <<" ">> \o sec.heading \o ParaSep \o sec.content
    ELSE sec.content

CountChar(s, c) == Cardinality({i \in 1..Len(s) : s[i] = c})

\* Section.has_table: re.search(r"^\|.*\|.*\|", content, re.MULTILINE)
has_table(content) ==
    LET lines == Split(content, <<"\n">>)
    IN  \E i \in 1..Len(lines) :
            /\ StartsWith(lines[i], <<"|">>)
            /\ CountChar(lines[i], "|") >= 3

\* Section.has_code
has_code(content) == Contains(content, Fence)

\* ------------------------------------------------------------------------
\* Section merger (sections_to_chunks, lines 359-387)
\* ------------------------------------------------------------------------

\* the loop of lines 363-375 without the test of line 365: no section is
\* held back, every section stands alone
RECURSIVE merge_loop_no_fold(_, _)
merge_loop_no_fold(sections, st) ==
    IF sections = <<>> THEN st
    ELSE merge_loop_no_fold(Tail(sections),
             [merged |-> Append(st.merged,
                                Section(Head(sections).heading, Head(sections).level,
                                        Strip(section_text(Head(sections))),
                                        Head(sections).heading_path)),
              pending |-> <<>>])

\* the loop of lines 363-375 with the length of line 365 taken of the
\* content, without the heading line
RECURSIVE merge_loop_content_length(_, _)
merge_loop_content_length(sections, st) ==
    IF sections = <<>> THEN st
    ELSE LET section == Head(sections)
             full_text == Strip(section_text(section))
             nxt == IF Len(section.content) < MIN_SECTION_LENGTH
                       /\ ~has_table(section.content)
                    THEN [merged |-> st.merged,
                          pending |-> st.pending \o full_text \o ParaSep]
                    ELSE [merged |-> Append(st.merged,
                                        Section(section.heading, section.level,
                                                st.pending \o full_text,
                                                section.heading_path)),
                          pending |-> <<>>]
         IN  merge_loop_content_length(Tail(sections), nxt)

\* the loop of lines 363-375; st = [merged, pending]
RECURSIVE merge_loop(_, _)
merge_loop(sections, st) ==
    IF sections = <<>> THEN st
    ELSE LET section == Head(sections)
             full_text == Strip(section_text(section))
             nxt == IF Len(full_text) < MIN_SECTION_LENGTH
                       /\ ~has_table(section.content)
                    THEN [merged |-> st.merged,
                          pending |-> st.pending \o full_text \o ParaSep]
                    ELSE [merged |-> Append(st.merged,
                                        Section(section.heading, section.level,
                                                st.pending \o full_text,
                                                section.heading_path)),
                          pending |-> <<>>]
         IN  merge_loop(Tail(sections), nxt)

\* lines 377-387 left out: what is still pending is lost
flush_pending_dropped(st) ==
    st.merged

\* lines 377-387: what is still pending goes to the last section, or
\* becomes the only one
flush_pending(st) ==
    IF st.pending = <<>> THEN st.merged
    ELSE IF Len(st.merged) > 0
         THEN [st.merged EXCEPT ![Len(st.merged)] =
                 Section(@.heading, @.level,
                         @.content \o ParaSep \o Strip(st.pending),
                         @.heading_path)]
         ELSE <<Section(<<>>, 0, Strip(st.pending), <<>>)>>

merge_sections(sections) ==
    flush_pending(merge_loop(sections, [merged |-> <<>>, pending |-> <<>>]))

\* ------------------------------------------------------------------------
\* Chunk assembler (sections_to_chunks, lines 389-428)
\* ------------------------------------------------------------------------

Chunk(text, metadata, chunk_id) ==
    [text |-> text, metadata |-> metadata, chunk_id |-> chunk_id]

LinkCap == 20

\* chunk_metadata with a fixed import timestamp instead of the clock of line 355
chunk_metadata_unstamped(section, filepath_rel, idx, total_chunks, chunk_text_str, all_tags, section_links, fm_metadata, now) ==
    MapUpdate(
        MapUpdate(
            MapUpdate((K_source_file :> MStr(filepath_rel))
                      @@ (K_heading_path :> MStr(section.heading_path))
                      @@ (K_heading_level :> MInt(section.level))
                      @@ (K_chunk_index :> MInt(idx))
                      @@ (K_total_chunks :> MInt(total_chunks))
                      @@ (K_char_count :> MInt(Len(chunk_text_str)))
                      @@ (K_has_table :> MBool(has_table(section.content)))
                      @@ (K_has_code :> MBool(has_code(section.content)))
                      @@ (K_imported_at :> MStr(<<"0">>)),
                      IF all_tags # <<>>
                      THEN (K_tags :> MStr(Join(all_tags, CommaSpace)))
                      ELSE EmptyMap),
            IF section_links # <<>>
            THEN (K_links :> MStr(Join(Slice(section_links, 0, LinkCap), CommaSpace)))
            ELSE EmptyMap),
        fm_metadata)

\* the metadata dict of lines 406-424
chunk_metadata(section, filepath_rel, idx, total_chunks, chunk_text_str, all_tags, section_links, fm_metadata, now) ==
    MapUpdate(
        MapUpdate(
            MapUpdate((K_source_file :> MStr(filepath_rel))
                      @@ (K_heading_path :> MStr(section.heading_path))
                      @@ (K_heading_level :> MInt(section.level))
                      @@ (K_chunk_index :> MInt(idx))
                      @@ (K_total_chunks :> MInt(total_chunks))
                      @@ (K_char_count :> MInt(Len(chunk_text_str)))
                      @@ (K_has_table :> MBool(has_table(section.content)))
                      @@ (K_has_code :> MBool(has_code(section.content)))
                      @@ (K_imported_at :> MStr(now)),
                      IF all_tags # <<>>
                      THEN (K_tags :> MStr(Join(all_tags, CommaSpace)))
                      ELSE EmptyMap),
            IF section_links # <<>>
            THEN (K_links :> MStr(Join(Slice(section_links, 0, LinkCap), CommaSpace)))
            ELSE EmptyMap),
        fm_metadata)

\* lines 400-426: one Chunk for each text of a section
build_chunks(section, text_chunks, all_tags, section_links, filepath_rel, fm_metadata, now) ==
    [i \in 1..Len(text_chunks) |->
        Chunk(text_chunks[i],
              chunk_metadata(section, filepath_rel, i - 1, Len(text_chunks),
                             text_chunks[i], all_tags, section_links,
                             fm_metadata, now),
              make_chunk_id(filepath_rel, section.heading_path,
                            i - 1, Len(text_chunks)))]

\* lines 391-398 without the sorted() of line 397: the tags in the order
\* they were found
chunks_of_text_unsorted(section, text, filepath_rel, fm_metadata, file_tags, max_chunk_size, chunk_overlap, now) ==
    IF text = <<>> THEN <<>>
    ELSE build_chunks(section,
                      chunk_text(text, max_chunk_size, chunk_overlap),
                      Dedup(file_tags \o extract_inline_tags(section.content), {}),
                      extract_links(section.content),
                      filepath_rel, fm_metadata, now)

\* lines 391-398: a section without text is skipped; the others are cut
chunks_of_text(section, text, filepath_rel, fm_metadata, file_tags, max_chunk_size, chunk_overlap, now) ==
    IF text = <<>> THEN <<>>
    ELSE build_chunks(section,
                      chunk_text(text, max_chunk_size, chunk_overlap),
                      SortedStrings(SeqToSet(file_tags)
                                    \cup SeqToSet(extract_inline_tags(section.content))),
                      extract_links(section.content),
                      filepath_rel, fm_metadata, now)

\* the chunks of one merged section (the body of the loop of lines 389-426)
section_chunks(section, filepath_rel, fm_metadata, file_tags, max_chunk_size, chunk_overlap, now) ==
    chunks_of_text(section, Strip(section_text(section)), filepath_rel,
                   fm_metadata, file_tags, max_chunk_size, chunk_overlap, now)

RECURSIVE assemble_loop(_, _, _, _, _, _, _)
assemble_loop(merged, filepath_rel, fm_metadata, file_tags, max_chunk_size, chunk_overlap, now) ==
    IF merged = <<>> THEN <<>>
    ELSE section_chunks(Head(merged), filepath_rel, fm_metadata, file_tags,
                        max_chunk_size, chunk_overlap, now)
         \o assemble_loop(Tail(merged), filepath_rel, fm_metadata, file_tags,
                          max_chunk_size, chunk_overlap, now)

\* now is the clock reading of line 355, as its ISO string
sections_to_chunks(sections, filepath_rel, frontmatter, file_tags, max_chunk_size, chunk_overlap, now) ==
    assemble_loop(merge_sections(sections), filepath_rel,
                  flatten_frontmatter(frontmatter), file_tags,
                  max_chunk_size, chunk_overlap, now)

\* ------------------------------------------------------------------------
\* Section splitter (split_into_sections)
\* ------------------------------------------------------------------------

PathSep == <<" ", ">", " ">>

\* offset of the first "\n" at or after offset i, or Len(s): where $ holds
LineEnd(s, i) ==
    LET nl == {j \in i..(Len(s) - 1) : s[j + 1] = "\n"}
    IN  IF nl = {} THEN Len(s) ELSE SetMin(nl)

IsHash(c) == c = "#"

\* HEADING_PATTERN = ^(#{1,6})\s+(.+)$ tried at offset p: [level, text, end],
\* end = -1 when it does not match. \s+ may run over line breaks; when the
\* whitespace reaches the end of the text it gives characters back to (.+).
heading_match(s, p) ==
    LET none == [level |-> 0, text |-> <<>>, end |-> -1]
        n == RunWhile(s, p, IsHash)
        w == p + n
        e == w + RunWhile(s, w, IsSpace)
        back == {q \in (w + 1)..(Len(s) - 1) : s[q + 1] # "\n"}
    IN  IF ~IsLineStart(s, p) \/ n < 1 \/ n > 6 \/ e = w THEN none
        ELSE IF e < Len(s)
             THEN [level |-> n, text |-> Slice(s, e, LineEnd(s, e)),
                   end |-> LineEnd(s, e)]
        ELSE IF back = {} THEN none
        ELSE [level |-> n, text |-> Slice(s, SetMax(back), LineEnd(s, SetMax(back))),
              end |-> LineEnd(s, SetMax(back))]

\* HEADING_PATTERN matches at offset p of s
is_heading_at(s, p) ==
    s[p + 1] = "#" /\ IsLineStart(s, p) /\ heading_match(s, p).end >= 0

\* the leftmost non-overlapping matches among the offsets cands
leftmost_matches(s, cands) ==
    take_matches(cands, [k \in 1..Len(cands) |-> heading_match(s, cands[k]).end], 1, 0)

heading_record(start, m) ==
    [start |-> start, level |-> m.level, text |-> m.text, end |-> m.end]

heading_records(s, taken) ==
    [k \in 1..Len(taken) |-> heading_record(taken[k], heading_match(s, taken[k]))]

\* HEADING_PATTERN.finditer(content): [start, level, text, end] of the
\* leftmost non-overlapping matches
find_headings(s) ==
    heading_records(s, leftmost_matches(s, Positions(0, Len(s) - 1, LAMBDA p : is_heading_at(s, p))))

\* lines 269-270 with > for >=: a heading does not close its sibling
RECURSIVE pop_stack_deeper_only(_, _)
pop_stack_deeper_only(heading_stack, level) ==
    IF heading_stack # <<>> /\ heading_stack[Len(heading_stack)][1] > level
    THEN pop_stack_deeper_only(SubSeq(heading_stack, 1, Len(heading_stack) - 1), level)
    ELSE heading_stack

\* lines 269-270: pop every entry at this level or deeper
RECURSIVE pop_stack(_, _)
pop_stack(heading_stack, level) ==
    IF heading_stack # <<>> /\ heading_stack[Len(heading_stack)][1] >= level
    THEN pop_stack(SubSeq(heading_stack, 1, Len(heading_stack) - 1), level)
    ELSE heading_stack

\* line 274
heading_path_of(heading_stack) ==
    Join([i \in 1..Len(heading_stack) |-> heading_stack[i][2]], PathSep)

\* the loop of lines 258-276 from heading i on
RECURSIVE heading_loop(_, _, _, _)
heading_loop(content, headings, i, heading_stack) ==
    IF i > Len(headings) THEN <<>>
    ELSE LET level == headings[i].level
             heading == Strip(headings[i].text)
             content_end == IF i + 1 <= Len(headings)
                            THEN headings[i + 1].start
                            ELSE Len(content)
             section_content == Strip(Slice(content, headings[i].end, content_end))
             stack == Append(pop_stack(heading_stack, level), <<level, heading>>)
         IN  <<Section(heading, level, section_content, heading_path_of(stack))>>
             \o heading_loop(content, headings, i + 1, stack)

\* lines 243-256: text without a heading is one section at level 0
headless_section(text) ==
    IF text # <<>> THEN <<Section(<<>>, 0, text, <<>>)>> ELSE <<>>

sections_of(content, headings) ==
    IF headings = <<>>
    THEN headless_section(Strip(content))
    ELSE headless_section(Strip(Slice(content, 0, headings[1].start)))
         \o heading_loop(content, headings, 1, <<>>)

split_into_sections(content) == sections_of(content, find_headings(content))

\* ------------------------------------------------------------------------
\* Front-matter parser (parse_frontmatter, without PyYAML: lines 107-128)
\* ------------------------------------------------------------------------

Dashes == <<"-", "-", "-">>
NlDashes == <<"\n", "-", "-", "-">>
QuoteChars == {"\"", "'"}
TrueLit == <<"t", "r", "u", "e">>
FalseLit == <<"f", "a", "l", "s", "e">>

\* re.search(r"\n---\s*\n", rest): [start, end] of the leftmost match, or
\* start = -1. \s* is greedy: the match ends after the last line break of the
\* whitespace that follows the dashes.
closing_delimiter(rest) ==
    LET LastNl(p) ==
            LET w == RunWhile(rest, p + 4, IsSpace)
                nls == {j \in (p + 4)..(p + 3 + w) : rest[j + 1] = "\n"}
            IN  IF nls = {} THEN -1 ELSE SetMax(nls)
        Matches(p) == OccursAt(rest, NlDashes, p) /\ LastNl(p) >= 0
        found == Positions(0, Len(rest) - 5, Matches)
    IN  IF found = <<>> THEN [start |-> -1, end |-> -1]
        ELSE [start |-> found[1], end |-> LastNl(found[1]) + 1]

\* str.replace(c, "", 1)
RemoveFirst(s, c) ==
    LET i == Find(s, <<c>>)
    IN  IF i < 0 THEN s ELSE Slice(s, 0, i) \o SliceFrom(s, i + 1)

\* str.isdigit() on ASCII text
IsDigits(s) == s # <<>> /\ \A i \in 1..Len(s) : IsDigit(s[i])

IsZero(c) == c = "0"

\* digits without their leading zeros, "0" when nothing else is left
TrimLeadingZeros(ds) ==
    LET t == SliceFrom(ds, RunWhile(ds, 0, IsZero))
    IN  IF t = <<>> THEN <<"0">> ELSE t

\* digits without their trailing zeros, "0" when nothing else is left
TrimTrailingZeros(ds) ==
    LET nz == {i \in 1..Len(ds) : ds[i] # "0"}
    IN  IF nz = {} THEN <<"0">> ELSE SubSeq(ds, 1, SetMax(nz))

\* str(int(value)) for a value made of digits and at most one "-";
\* <<>> stands for ValueError
int_repr(value) ==
    LET neg == StartsWith(value, <<"-">>)
        ds == IF neg THEN Tail(value) ELSE value
        mag == TrimLeadingZeros(ds)
    IN  IF ~IsDigits(ds) THEN <<>>
        ELSE IF neg /\ mag # <<"0">> THEN <<"-">> \o mag ELSE mag

\* str(float(value)) for a value made of digits, one "." and at most one "-",
\* in the range where Python prints no exponent; <<>> stands for ValueError
float_repr(value) ==
    LET neg == StartsWith(value, <<"-">>)
        body == IF neg THEN Tail(value) ELSE value
        dot == Find(body, <<".">>)
        ip == Slice(body, 0, dot)
        fp == SliceFrom(body, dot + 1)
        ok == /\ (ip = <<>> \/ IsDigits(ip))
              /\ (fp = <<>> \/ IsDigits(fp))
              /\ (ip # <<>> \/ fp # <<>>)
    IN  IF ~ok THEN <<>>
        ELSE (IF neg THEN <<"-">> ELSE <<>>)
             \o TrimLeadingZeros(ip) \o <<".">> \o TrimTrailingZeros(fp)

IsNonBlank(i) == Strip(i) # <<>>

\* the value of one "key: value" line (lines 115-127)
parse_value(value) ==
    LET items == Split(Slice(value, 1, Len(value) - 1), <<",">>)
        kept == SelectSeq(items, IsNonBlank)
        stripped == RemoveFirst(RemoveFirst(value, "."), "-")
        num == IF Contains(value, <<".">>) THEN float_repr(value) ELSE int_repr(value)
    IN  IF StartsWith(value, <<"[">>) /\ EndsWith(value, <<"]">>)
        THEN MList([i \in 1..Len(kept) |-> MStr(StripChars(Strip(kept[i]), QuoteChars))])
        ELSE IF Lower(value) \in {TrueLit, FalseLit}
        THEN MBool(Lower(value) = TrueLit)
        ELSE IF IsDigits(stripped)
        THEN (IF num = <<>> THEN MStr(value)
              ELSE [t |-> IF Contains(value, <<".">>) THEN "float" ELSE "int",
                    v |-> num])
        ELSE MStr(StripChars(value, QuoteChars))

\* the loop of lines 110-127: a later line overrides an earlier one
parse_yaml_lines(yaml_block) ==
    LET lines == Split(Strip(yaml_block), <<"\n">>)
        KeyOf(l) == Strip(Slice(l, 0, Find(l, <<":">>)))
        ValOf(l) == Strip(SliceFrom(l, Find(l, <<":">>) + 1))
        used == {i \in 1..Len(lines) : Contains(lines[i], <<":">>)}
    IN  [k \in {KeyOf(lines[i]) : i \in used} |->
            parse_value(ValOf(lines[SetMax({i \in used : KeyOf(lines[i]) = k})]))]

\* lines 96-105 with the opening delimiter cut off a block that is not closed
parse_frontmatter_cut(content) ==
    LET rest == SliceFrom(content, 3)
        end_match == closing_delimiter(rest)
    IN  IF ~StartsWith(content, Dashes)
        THEN [fm |-> EmptyMap, body |-> content]
        ELSE IF end_match.start < 0
        THEN [fm |-> EmptyMap, body |-> rest]
        ELSE [fm |-> parse_yaml_lines(Slice(rest, 0, end_match.start)),
              body |-> SliceFrom(rest, end_match.end)]

parse_frontmatter(content) ==
    LET rest == SliceFrom(content, 3)
        end_match == closing_delimiter(rest)
    IN  IF ~StartsWith(content, Dashes) \/ end_match.start < 0
        THEN [fm |-> EmptyMap, body |-> content]
        ELSE [fm |-> parse_yaml_lines(Slice(rest, 0, end_match.start)),
              body |-> SliceFrom(rest, end_match.end)]

\* ------------------------------------------------------------------------
\* parse_file, after the read of line 520
\* ------------------------------------------------------------------------

\* str(t).strip().lower().lstrip("#")
clean_tag(t) == LStripChars(Lower(Strip(t)), {"#"})

\* lines 527-533
file_level_tags(frontmatter) ==
    LET fm_tags == frontmatter[K_tags]
    IN  IF K_tags \notin DOMAIN frontmatter THEN <<>>
        ELSE IF fm_tags.t = "str"
        THEN LET parts == Split(fm_tags.v, <<",">>)
             IN  [i \in 1..Len(parts) |-> clean_tag(parts[i])]
        ELSE IF fm_tags.t = "list"
        THEN [i \in 1..Len(fm_tags.v) |-> clean_tag(fm_tags.v[i].v)]
        ELSE <<>>

\* lines 527-541
chunks_of_parsed(parsed, filepath_rel, max_chunk_size, chunk_overlap, now) ==
    sections_to_chunks(split_into_sections(parsed.body), filepath_rel, parsed.fm, file_level_tags(parsed.fm), max_chunk_size, chunk_overlap, now)

parse_file(content, filepath_rel, max_chunk_size, chunk_overlap, now) ==
    chunks_of_parsed(parse_frontmatter(content), filepath_rel, max_chunk_size, chunk_overlap, now)

\* ------------------------------------------------------------------------
\* State
\* ------------------------------------------------------------------------

VARIABLES
    clock,      \* the wall clock: datetime.now() and the mtime of a write
    fs,         \* the vault: path -> File
    state_file, \* .obsidian-import-state.json
    store,      \* the collection: id -> document and metadata
    pc,         \* where cmd_import stands; "idle" when no import runs
    args,       \* cmd_import: its parsed command line
    files,      \* cmd_import: files
    fi,         \* cmd_import: the position of "for f in files" (1-based)
    state,      \* cmd_import: state
    new_state,  \* cmd_import: new_state
    stats,      \* cmd_import: stats
    chunks,     \* cmd_import: chunks of the current file
    batch_i,    \* cmd_import: i of the batch loop
    runs,       \* how many imports were started
    nfail,      \* how many store calls have raised
    reads,      \* which files this import read, and which code read them
    ups,        \* the upsert calls of this import, in the order made
    failed,     \* the files on which this import raised
    store0,     \* the store when this import started
    state_file0, \* the state file when this import started
    last,       \* how the previous import ended
    edited,     \* the files written since the previous import ended
    hin,        \* the arguments of the function under test
    hout,       \* what it returned
    hpc         \* "ready" before the call, then "once", "twice" or "done"

harness_vars == <<hin, hout, hpc>>

\* ------------------------------------------------------------------------
\* Bounds
\* ------------------------------------------------------------------------

MaxTextLen == 6
MaxChunkSize == 4
MaxOverlap == 2
MaxClock == 2
MaxPieces == 3
MaxRuns == 2
MaxFailures == 1
MaxItems == 4
MaxLines == 3
MaxSections == 2
MaxTokens == 5

\* ------------------------------------------------------------------------
\* The vault, the state file and the store
\* ------------------------------------------------------------------------

DEFAULT_CHUNK_SIZE == 1500
DEFAULT_CHUNK_OVERLAP == 150
batch_size == 100

SKIP_DIRS == {<<".", "o", "b", "s", "i", "d", "i", "a", "n">>, <<".", "t", "r", "a", "s", "h">>, <<".", "g", "i", "t">>, <<"_", "_", "p", "y", "c", "a", "c", "h", "e", "_", "_">>, <<"n", "o", "d", "e", "_", "m", "o", "d", "u", "l", "e", "s">>}

\* the notes of the vault, by vault-relative path
FileC == <<"C", ".", "m", "d">>
FileCSharp == <<"C", "#", ".", "m", "d">>
FileND == <<"n", "/", "d", ".", "m", "d">>
FileTrash == <<".", "t", "r", "a", "s", "h", "/", "t", ".", "m", "d">>
FileNames == {FileC, FileCSharp, FileND, FileTrash}
EditableFiles == {FileC, FileCSharp, FileND}

FolderN == <<"n">>
FolderMissing == <<"q">>
TagX == <<"#", "X">>
GlobC == <<"C", "*">>

\* what a note can hold
DocEmpty == <<>>
DocAlpha == <<"a", "l", "p", "h", "a", " ", "o", "n", "e", ".", "\n">>
DocBeta == <<"-", "-", "-", "\n", "t", "a", "g", "s", ":", " ", "[", "x", "]", "\n", "-", "-", "-", "\n", "b", "e", "t", "a", " ", "t", "w", "o", ".", "\n">>
DocTexts == {DocEmpty, DocAlpha, DocBeta}

\* a file of the vault: what it holds, when it was written, and whether it
\* can be read ("read": read_text raises, stat works, as for a file without
\* read permission; "dangling": both raise, as for a broken link)
File(content, mtime, fault) == [content |-> content, mtime |-> mtime, fault |-> fault]

EmptyState == [f \in {} |-> 0]

\* the separator of the parts of a path
DirSep == <<"/">>

\* Path.parts of a relative path
path_parts(p) == Split(p, DirSep)

\* a < b for paths (by parts)
RECURSIVE PartsLess(_, _)
PartsLess(a, b) ==
    IF b = <<>> THEN FALSE
    ELSE IF a = <<>> THEN TRUE
    ELSE IF Head(a) = Head(b) THEN PartsLess(Tail(a), Tail(b))
    ELSE StrLess(Head(a), Head(b))

\* sorted(...) of paths
RECURSIVE SortedPaths(_)
SortedPaths(S) ==
    IF S = {} THEN <<>>
    ELSE LET m == CHOOSE a \in S : \A b \in S \ {a} : PartsLess(path_parts(a), path_parts(b))
         IN  <<m>> \o SortedPaths(S \ {m})

\* fnmatch(name, pat) for patterns of literals, * and ?
RECURSIVE fnmatch(_, _)
fnmatch(name, pat) ==
    IF pat = <<>> THEN name = <<>>
    ELSE IF Head(pat) = "*"
    THEN fnmatch(name, Tail(pat)) \/ (name # <<>> /\ fnmatch(Tail(name), pat))
    ELSE IF name = <<>> THEN FALSE
    ELSE (Head(pat) = "?" \/ Head(pat) = Head(name)) /\ fnmatch(Tail(name), Tail(pat))

\* lines 455-457: a part of the path is hidden or a skipped directory
is_skipped(rel) ==
    \E i \in 1..Len(path_parts(rel)) :
        LET part == path_parts(rel)[i]
        IN  StartsWith(part, <<".">>) \/ part \in SKIP_DIRS

\* lines 446-465: the .md files under the search root that pass the path
\* filters, sorted
candidate_files(paths, folder, glob_pattern) ==
    LET under == IF folder # <<>>
                 THEN {p \in paths : StartsWith(p, folder \o DirSep)}
                 ELSE paths
        kept == {p \in under :
                    /\ ~is_skipped(p)
                    /\ glob_pattern # <<>> => fnmatch(p, glob_pattern)}
    IN  SortedPaths(kept)

\* lines 474-480: the tags of the front matter, stripped
stripped_fm_tags(frontmatter) ==
    IF K_tags \notin DOMAIN frontmatter THEN <<>>
    ELSE IF frontmatter[K_tags].t = "str"
    THEN StripEachKeep(Split(frontmatter[K_tags].v, <<",">>))
    ELSE IF frontmatter[K_tags].t = "list"
    THEN [i \in 1..Len(frontmatter[K_tags].v) |-> Strip(frontmatter[K_tags].v[i].v)]
    ELSE <<>>

\* line 485: t.lower().lstrip("#") for every tag
normal_tags(tags) == [i \in 1..Len(tags) |-> LStripChars(Lower(tags[i]), {"#"})]

\* lines 473-487: the parsed file carries the tag, in its front matter or inline
parsed_has_tag(parsed, tag) ==
    LStripChars(Lower(tag), {"#"})
        \in SeqToSet(normal_tags(stripped_fm_tags(parsed.fm) \o extract_inline_tags(parsed.body)))

\* lines 470-489: the file carries the tag
file_has_tag(content, tag) == parsed_has_tag(parse_frontmatter(content), tag)

\* lines 467-491: the tag filter reads the candidates in order; the files
\* kept, the files read, and the file whose read raised, if one did (the
\* list is then never returned)
filter_by_tag(vault, cands, tag) ==
    LET bad == {i \in 1..Len(cands) : vault[cands[i]].fault # "none"}
    IN  IF tag = <<>>
        THEN [files |-> cands, read |-> {}, raised |-> {}]
        ELSE IF bad # {}
        THEN [files |-> <<>>,
              read |-> {cands[i] : i \in 1..SetMin(bad)},
              raised |-> {cands[SetMin(bad)]}]
        ELSE [files |-> SelectSeq(cands, LAMBDA p : file_has_tag(vault[p].content, tag)),
              read |-> SeqToSet(cands),
              raised |-> {}]

discover_files(vault, folder, tag, glob_pattern) ==
    filter_by_tag(vault, candidate_files(DOMAIN vault, folder, glob_pattern), tag)

\* the state file: missing, not JSON, or a JSON map from path to mtime
StateFile(kind, map) == [kind |-> kind, map |-> map]

\* load_state
load_state(sf) == IF sf.kind = "json" THEN sf.map ELSE EmptyState

\* save_state
save_state(sf, st) == StateFile("json", st)

\* lines 598-604 with the change test dropped: every file is selected
changed_files_all(found, st, vault) ==
    found

\* lines 598-604 with the mtime test dropped: only unrecorded files
changed_files_new_only(found, st, vault) ==
    LET IsNew(p) == p \notin DOMAIN st
    IN  SelectSeq(found, IsNew)

\* lines 598-604: the files without an entry or with another mtime
changed_files(found, st, vault) ==
    LET IsChanged(p) == p \notin DOMAIN st \/ st[p] # vault[p].mtime
    IN  SelectSeq(found, IsChanged)

\* the state map after a file went through the try block of lines 633-657
\* when the entry is written whether or not the block raised
after_file_always(st, rel, mtime, ok) ==
    [p \in DOMAIN st \cup {rel} |-> IF p = rel THEN mtime ELSE st[p]]

\* the state map after a file went through the try block of lines 633-657:
\* line 652 runs only if nothing before it raised
after_file(st, rel, mtime, ok) ==
    IF ok
    THEN [p \in DOMAIN st \cup {rel} |-> IF p = rel THEN mtime ELSE st[p]]
    ELSE st

\* collection.upsert(ids, documents, metadatas): the last record of an id wins
upsert(coll, batch) ==
    LET ids == {batch[i].chunk_id : i \in 1..Len(batch)}
        Last(id) == batch[SetMax({i \in 1..Len(batch) : batch[i].chunk_id = id})]
    IN  [id \in DOMAIN coll \cup ids |->
            IF id \in ids
            THEN [document |-> Last(id).text, metadata |-> Last(id).metadata]
            ELSE coll[id]]

EmptyStore == [id \in {} |-> [document |-> <<>>, metadata |-> EmptyMap]]

\* datetime.now(timezone.utc).isoformat() at clock reading t
IsoTime(t) == IntToStr(t)

\* the command line of one import
Args(incremental, folder, tag, glob) ==
    [incremental |-> incremental, folder |-> folder, tag |-> tag, glob |-> glob, chunk_size |-> DEFAULT_CHUNK_SIZE, chunk_overlap |-> DEFAULT_CHUNK_OVERLAP]

ImportArgs ==
    { Args(TRUE, <<>>, <<>>, <<>>), Args(FALSE, <<>>, <<>>, <<>>),
      Args(TRUE, <<>>, TagX, <<>>), Args(FALSE, <<>>, TagX, <<>>),
      Args(TRUE, FolderN, <<>>, <<>>), Args(TRUE, FolderMissing, <<>>, <<>>),
      Args(TRUE, <<>>, <<>>, GlobC), Args(FALSE, FolderN, TagX, GlobC) }

NoArgs == Args(FALSE, <<>>, <<>>, <<>>)

ZeroStats == [files |-> 0, chunks |-> 0, errors |-> 0]

\* the vaults an import can start from
Vaults ==
    { (FileC :> File(DocAlpha, 0, "none")) @@ (FileCSharp :> File(DocAlpha, 0, "none"))
        @@ (FileND :> File(DocBeta, 0, "none")) @@ (FileTrash :> File(DocAlpha, 0, "none")),
      (FileC :> File(DocBeta, 0, "none")) @@ (FileCSharp :> File(DocAlpha, 0, "read"))
        @@ (FileND :> File(DocAlpha, 0, "none")) @@ (FileTrash :> File(DocAlpha, 0, "none")),
      (FileC :> File(DocEmpty, 0, "none")) @@ (FileCSharp :> File(DocBeta, 0, "none"))
        @@ (FileND :> File(DocAlpha, 0, "dangling")) @@ (FileTrash :> File(DocAlpha, 0, "none")) }

driver_vars == <<fs, state_file, store, pc, args, files, fi, state, new_state, stats, chunks, batch_i>>
history_vars == <<runs, nfail, reads, ups, failed, store0, state_file0, last, edited>>
vars == <<clock, harness_vars, driver_vars, history_vars>>

NoRun == [args |-> NoArgs, end |-> "none", failed |-> {}, synced |-> FALSE, reported |-> {}]

\* no import has run and none will
DriverOff ==
    /\ fs = [f \in {} |-> File(DocEmpty, 0, "none")]
    /\ state_file = StateFile("missing", EmptyState)
    /\ store = EmptyStore
    /\ pc = "idle"
    /\ args = NoArgs
    /\ files = <<>>
    /\ fi = 1
    /\ state = EmptyState
    /\ new_state = EmptyState
    /\ stats = ZeroStats
    /\ chunks = <<>>
    /\ batch_i = 0
    /\ runs = 0
    /\ nfail = 0
    /\ reads = {}
    /\ ups = <<>>
    /\ failed = {}
    /\ store0 = EmptyStore
    /\ state_file0 = state_file
    /\ last = NoRun
    /\ edited = {}

DriverInit ==
    /\ fs \in Vaults
    /\ state_file = StateFile(IF fs[FileCSharp].fault = "none" THEN "missing" ELSE "corrupt", EmptyState)
    /\ store = EmptyStore
    /\ pc = "idle"
    /\ args = NoArgs
    /\ files = <<>>
    /\ fi = 1
    /\ state = EmptyState
    /\ new_state = EmptyState
    /\ stats = ZeroStats
    /\ chunks = <<>>
    /\ batch_i = 0
    /\ runs = 0
    /\ nfail = 0
    /\ reads = {}
    /\ ups = <<>>
    /\ failed = {}
    /\ store0 = EmptyStore
    /\ state_file0 = state_file
    /\ last = NoRun
    /\ edited = {}
    /\ clock = 0
    /\ hin = <<>>
    /\ hout = <<>>
    /\ hpc = "off"

\* every importable file has the entry of its current mtime in the state file
AllRecorded(vault, sf) ==
    \A p \in SeqToSet(candidate_files(DOMAIN vault, <<>>, <<>>)) :
        p \in DOMAIN load_state(sf) /\ load_state(sf)[p] = vault[p].mtime

\* the process ends: what the run was is kept for the next one to look at
EndRun(how, raised, sf, printed) ==
    /\ pc' = "idle"
    /\ last' = [args |-> args, end |-> how, failed |-> raised, synced |-> AllRecorded(fs, sf), reported |-> printed]
    /\ edited' = {}

\* a note is written between two imports
EditFile(f, text) ==
    /\ pc = "idle"
    /\ clock < MaxClock
    /\ fs[f].fault = "none"
    /\ text # fs[f].content
    /\ clock' = clock + 1
    /\ fs' = [fs EXCEPT ![f] = File(text, clock + 1, "none")]
    /\ edited' = edited \cup {f}
    /\ UNCHANGED <<harness_vars, state_file, store, pc, args, files, fi, state, new_state, stats, chunks, batch_i, runs, nfail, reads, ups, failed, store0, state_file0, last>>

\* cmd_import, lines 584-593: the command starts; found is what
\* discover_files gave
Discovered(a, found) ==
    /\ pc = "idle"
    /\ runs < MaxRuns
    /\ runs' = runs + 1
    /\ args' = a
    /\ reads' = [file : found.read, by : {"tag"}]
    /\ failed' = found.raised
    /\ files' = found.files
    /\ IF found.raised # {} \/ found.files = <<>>
       THEN /\ pc' = "idle"
            /\ last' = [args |-> a, end |-> IF found.raised # {} THEN "crashed" ELSE "nothing", failed |-> found.raised, synced |-> AllRecorded(fs, state_file), reported |-> {}]
            /\ edited' = {}
       ELSE /\ pc' = "filter"
            /\ UNCHANGED <<last, edited>>
    /\ ups' = <<>>
    /\ store0' = store
    /\ state_file0' = state_file
    /\ fi' = 1
    /\ state' = EmptyState
    /\ new_state' = EmptyState
    /\ stats' = ZeroStats
    /\ chunks' = <<>>
    /\ batch_i' = 0
    /\ UNCHANGED <<clock, harness_vars, fs, state_file, store, nfail>>

Discover(a) == Discovered(a, discover_files(fs, a.folder, a.tag, a.glob))

\* cmd_import, lines 595-611: the incremental filter
FilterChanged ==
    /\ pc = "filter"
    /\ IF ~args.incremental
       THEN /\ pc' = "connect"
            /\ state' = EmptyState
            /\ UNCHANGED <<files, failed, last, edited>>
       ELSE LET loaded == load_state(state_file)
                bad == {i \in 1..Len(files) : fs[files[i]].fault = "dangling"}
                changed == changed_files(files, loaded, fs)
            IN  /\ state' = loaded
                /\ IF bad # {}
                   THEN /\ failed' = {files[SetMin(bad)]}
                        /\ UNCHANGED files
                        /\ EndRun("crashed", {files[SetMin(bad)]}, state_file, {})
                   ELSE /\ files' = changed
                        /\ UNCHANGED failed
                        /\ IF changed = <<>>
                           THEN EndRun("nothing", failed, state_file, {})
                           ELSE pc' = "connect" /\ UNCHANGED <<last, edited>>
    /\ UNCHANGED <<clock, harness_vars, fs, state_file, store, args, fi, new_state, stats, chunks, batch_i, runs, nfail, reads, ups, store0, state_file0>>

\* a connection failure that still writes the state file on its way out
Connect_saves(ok) ==
    /\ pc = "connect"
    /\ IF ok
       THEN /\ pc' = "loop"
            /\ new_state' = state
            /\ stats' = ZeroStats
            /\ UNCHANGED <<nfail, last, edited, state_file>>
       ELSE /\ nfail < MaxFailures
            /\ nfail' = nfail + 1
            /\ state_file' = save_state(state_file, state)
            /\ EndRun("fatal", failed, save_state(state_file, state), {})
            /\ UNCHANGED <<new_state, stats>>
    /\ UNCHANGED <<clock, harness_vars, fs, store, args, files, fi, state, chunks, batch_i, runs, reads, ups, failed, store0, state_file0>>

\* cmd_import, lines 613-629: the store answers, or the command exits
Connect(ok) ==
    /\ pc = "connect"
    /\ IF ok
       THEN /\ pc' = "loop"
            /\ new_state' = state
            /\ stats' = ZeroStats
            /\ UNCHANGED <<nfail, last, edited>>
       ELSE /\ nfail < MaxFailures
            /\ nfail' = nfail + 1
            /\ EndRun("fatal", failed, state_file, {})
            /\ UNCHANGED <<new_state, stats>>
    /\ UNCHANGED <<clock, harness_vars, fs, state_file, store, args, files, fi, state, chunks, batch_i, runs, reads, ups, failed, store0, state_file0>>

\* cmd_import, lines 631-638 and 655-657: the next file is read and parsed;
\* parsed is what parse_file gave, when it did not raise
Parsed(rel, raised, parsed) ==
    /\ reads' = reads \cup {[file |-> rel, by |-> "parse"]}
    /\ IF raised
       THEN /\ stats' = [stats EXCEPT !.errors = @ + 1]
            /\ failed' = failed \cup {rel}
            /\ new_state' = after_file(new_state, rel, fs[rel].mtime, FALSE)
            /\ fi' = fi + 1
            /\ UNCHANGED <<pc, chunks>>
       ELSE IF parsed = <<>>
       THEN /\ fi' = fi + 1
            /\ UNCHANGED <<pc, chunks, stats, failed, new_state>>
       ELSE /\ chunks' = parsed
            /\ pc' = "upsert"
            /\ UNCHANGED <<fi, stats, failed, new_state>>
    /\ batch_i' = 0
    /\ UNCHANGED <<clock, harness_vars, fs, state_file, store, args, files, state, runs, nfail, ups, store0, state_file0, last, edited>>

ParseFile ==
    /\ pc = "loop"
    /\ fi <= Len(files)
    /\ Parsed(files[fi], fs[files[fi]].fault # "none",
              IF fs[files[fi]].fault # "none" THEN <<>>
              ELSE parse_file(fs[files[fi]].content, files[fi], args.chunk_size, args.chunk_overlap, IsoTime(clock)))

\* line 643 with the slice one short: chunks[i:i + batch_size - 1]
batch_of_short(file_chunks, i) == Slice(file_chunks, i, i + batch_size - 1)

\* cmd_import, line 643: the chunks of the batch that starts after the first i
batch_of(file_chunks, i) == Slice(file_chunks, i, i + batch_size)

\* cmd_import, lines 640-657: one batch goes to the store, or the call raises.
\* After the last batch, l.650-651 count the file and its chunks and l.652
\* takes its mtime as it is now; when that stat raises, the except of
\* l.655-657 counts an error as well and no state entry is set.
UpsertBatch(ok) ==
    /\ pc = "upsert"
    /\ LET rel == files[fi]
           batch == batch_of(chunks, batch_i)
           call == [file |-> rel, at |-> batch_i, ids |-> [i \in 1..Len(batch) |-> batch[i].chunk_id],
                    documents |-> [i \in 1..Len(batch) |-> batch[i].text],
                    metadatas |-> [i \in 1..Len(batch) |-> batch[i].metadata], ok |-> ok]
       IN  /\ ups' = Append(ups, call)
           /\ IF ~ok
              THEN /\ nfail < MaxFailures
                   /\ nfail' = nfail + 1
                   /\ stats' = [stats EXCEPT !.errors = @ + 1]
                   /\ failed' = failed \cup {rel}
                   /\ new_state' = after_file(new_state, rel, fs[rel].mtime, FALSE)
                   /\ fi' = fi + 1
                   /\ pc' = "loop"
                   /\ chunks' = <<>>
                   /\ batch_i' = 0
                   /\ UNCHANGED store
              ELSE /\ store' = upsert(store, batch)
                   /\ UNCHANGED nfail
                   /\ IF batch_i + batch_size < Len(chunks)
                      THEN /\ batch_i' = batch_i + batch_size
                           /\ UNCHANGED <<pc, fi, chunks, stats, new_state, failed>>
                      ELSE /\ IF fs[rel].fault = "dangling"
                              THEN /\ stats' = [stats EXCEPT !.files = @ + 1, !.chunks = @ + Len(chunks), !.errors = @ + 1]
                                   /\ failed' = failed \cup {rel}
                                   /\ new_state' = after_file(new_state, rel, fs[rel].mtime, FALSE)
                              ELSE /\ stats' = [stats EXCEPT !.files = @ + 1, !.chunks = @ + Len(chunks)]
                                   /\ new_state' = after_file(new_state, rel, fs[rel].mtime, TRUE)
                                   /\ UNCHANGED failed
                           /\ fi' = fi + 1
                           /\ pc' = "loop"
                           /\ chunks' = <<>>
                           /\ batch_i' = 0
    /\ UNCHANGED <<clock, harness_vars, fs, state_file, args, files, state, runs, reads, store0, state_file0, last, edited>>

\* cmd_import, lines 663-669: the counts the summary prints; the store is
\* asked for its size after the first two, and the error line is printed
\* only for a count that is not zero
summary(counts, count_ok) ==
    {[count |-> "files", value |-> counts.files], [count |-> "chunks", value |-> counts.chunks]}
        \cup (IF count_ok /\ counts.errors # 0 THEN {[count |-> "errors", value |-> counts.errors]} ELSE {})

\* cmd_import, lines 659-669: the state is saved and the summary printed;
\* collection.count() answers, or it raises and the command dies there
Finish(ok) ==
    /\ pc = "loop"
    /\ fi > Len(files)
    /\ IF ok THEN UNCHANGED nfail ELSE nfail < MaxFailures /\ nfail' = nfail + 1
    /\ LET saved == IF args.incremental THEN save_state(state_file, new_state) ELSE state_file
       IN  /\ state_file' = saved
           /\ EndRun(IF ok THEN "completed" ELSE "summary", failed, saved, summary(stats, ok))
    /\ UNCHANGED <<clock, harness_vars, fs, store, args, files, fi, state, new_state, stats, chunks, batch_i, runs, reads, ups, failed, store0, state_file0>>

\* cmd_import, lines 585-588: the --vault path names no directory
VaultAbsent(a) ==
    /\ pc = "idle"
    /\ runs < MaxRuns
    /\ runs' = runs + 1
    /\ args' = a
    /\ reads' = {}
    /\ ups' = <<>>
    /\ failed' = {}
    /\ files' = <<>>
    /\ store0' = store
    /\ state_file0' = state_file
    /\ last' = [args |-> a, end |-> "fatal", failed |-> {}, synced |-> AllRecorded(fs, state_file), reported |-> {}]
    /\ edited' = {}
    /\ UNCHANGED <<clock, harness_vars, fs, state_file, store, pc, fi, state, new_state, stats, chunks, batch_i, nfail>>

DriverNext ==
    \/ \E a \in ImportArgs : Discover(a)
    \/ FilterChanged
    \/ \E ok \in BOOLEAN : Connect(ok)
    \/ ParseFile
    \/ \E ok \in BOOLEAN : UpsertBatch(ok)
    \/ \E ok \in BOOLEAN : Finish(ok)
    \/ \E a \in ImportArgs : VaultAbsent(a)
    \/ \E f \in EditableFiles, text \in DocTexts : EditFile(f, text)


\* ------------------------------------------------------------------------
\* chunk_text on every short text
\* ------------------------------------------------------------------------

ChunkAlphabet == {"a", ".", " ", "\n"}
ChunkTexts == UNION {[1..n -> ChunkAlphabet] : n \in 0..MaxTextLen}
ChunkSizes == 2..MaxChunkSize
ChunkOverlaps == 0..MaxOverlap

ChunkInit ==
    /\ hin \in [text : ChunkTexts, max_size : ChunkSizes, overlap : ChunkOverlaps]
    /\ hout = <<>>
    /\ hpc = "ready"
    /\ clock = 0
    /\ DriverOff

ChunkCall ==
    /\ hpc = "ready"
    /\ hout' = chunk_text(hin.text, hin.max_size, hin.overlap)
    /\ hpc' = "done"
    /\ UNCHANGED <<clock, hin, driver_vars, history_vars>>

ChunkNext == ChunkCall

SpecChunk == ChunkInit /\ [][ChunkNext]_vars

\* a chunk that is one sentence of one paragraph
IsSingleSentence(c) == ~Contains(c, ParaSep) /\ Len(split_sentences(c)) = 1

\* C8: every chunk returned by chunk_text is at most max_size long, unless it
\* is one single sentence that is by itself longer than max_size.
C8_ChunkWithinMaxSize ==
    hpc = "done" =>
        \A i \in 1..Len(hout) :
            Len(hout[i]) <= hin.max_size \/ IsSingleSentence(hout[i])

\* the overlap the claim expects a chunk to hand to its successor: its last
\* `overlap` characters, cut to start after the last ". " inside them
ExpectedOverlap(chunk, overlap) ==
    LET tail == SliceFrom(chunk, Len(chunk) - overlap)
        brk == RFind(tail, SentenceBreak)
    IN  IF brk >= 0 THEN SliceFrom(tail, brk + 2) ELSE tail

\* C9: of two consecutive chunks of an oversized text, with overlap > 0, the
\* later one begins with the overlap carried from the earlier one.
C9_OverlapIsPrefixOfNext ==
    (hpc = "done" /\ hin.overlap > 0 /\ Len(hin.text) > hin.max_size) =>
        \A i \in 1..(Len(hout) - 1) :
            StartsWith(hout[i + 1], ExpectedOverlap(hout[i], hin.overlap))

\* C10: a text no longer than max_size comes back as the single chunk, itself,
\* whatever the overlap.
C10_SmallTextIsOneChunk ==
    (hpc = "done" /\ Len(hin.text) <= hin.max_size) => hout = <<hin.text>>

\* C10 witness: a text that fits, holds a paragraph break and trailing
\* whitespace, chunked with a positive overlap
C10_Witness ==
    /\ hpc = "done"
    /\ Len(hin.text) = hin.max_size
    /\ Contains(hin.text, ParaSep)
    /\ IsSpace(hin.text[Len(hin.text)])
    /\ hin.overlap > 0
    /\ hout = <<hin.text>>

\* ------------------------------------------------------------------------
\* parse_file, twice, on documents put together from a few pieces
\* ------------------------------------------------------------------------

PieceHeadA == <<"#", " ", "A", "\n", "\n">>
PieceHeadB == <<"#", "#", " ", "B", " ", "b", "\n", "\n">>
PiecePara == <<"a", "l", "p", "h", "a", " ", "b", "e", "t", "a", " ", "g", "a", "m", "m", "a", ".", " ", "d", "e", "l", "t", "a", " ", "e", "p", "s", " ", "z", "e", "t", "a", ".", " ", "e", "t", "a", " ", "t", "h", "e", "t", "a", " ", "i", "o", "t", "a", " ", "k", "a", "p", "p", "a", ".", "\n", "\n">>
PieceTag == <<"s", "e", "e", " ", "#", "T", "1", " ", "a", "n", "d", " ", "[", "[", "N", "o", "t", "e", "|", "n", "]", "]", ".", "\n", "\n">>
PieceFront == <<"-", "-", "-", "\n", "t", "a", "g", "s", ":", " ", "[", "r", "]", "\n", "n", ":", " ", "3", "\n", "-", "-", "-", "\n">>

DocPieces == {PieceHeadA, PieceHeadB, PiecePara, PieceTag, PieceFront}

RECURSIVE DocsOfPieces(_)
DocsOfPieces(n) ==
    IF n = 0 THEN {<<>>}
    ELSE {p \o d : p \in DocPieces, d \in DocsOfPieces(n - 1)}

AssembleDocs == UNION {DocsOfPieces(n) : n \in 0..MaxPieces}
AssemblePaths == {<<"n", "/", "M", "y", " ", "N", "o", "t", "e", ".", "m", "d">>}
AssembleSizes == {40, 60}
AssembleOverlaps == {0, 10}

AssembleInit ==
    /\ hin \in [content : AssembleDocs, filepath_rel : AssemblePaths, max_chunk_size : AssembleSizes, chunk_overlap : AssembleOverlaps]
    /\ hout = <<>>
    /\ hpc = "ready"
    /\ clock = 0
    /\ DriverOff

\* one call of parse_file on the input, at the current clock reading
AssembleCall(from, to) ==
    /\ hpc = from
    /\ hout' = Append(hout, [at |-> clock, chunks |-> parse_file(hin.content, hin.filepath_rel, hin.max_chunk_size, hin.chunk_overlap, IsoTime(clock))])
    /\ hpc' = to
    /\ UNCHANGED <<clock, hin, driver_vars, history_vars>>

AssembleFirst == AssembleCall("ready", "once")
AssembleSecond == AssembleCall("once", "twice")

\* time passes
HarnessTick ==
    /\ clock < MaxClock
    /\ clock' = clock + 1
    /\ UNCHANGED <<harness_vars, driver_vars, history_vars>>

AssembleNext == AssembleFirst \/ AssembleSecond \/ HarnessTick

SpecAssemble == AssembleInit /\ [][AssembleNext]_vars

SameButTimestamp(c, d) ==
    /\ c.text = d.text
    /\ c.chunk_id = d.chunk_id
    /\ DOMAIN c.metadata = DOMAIN d.metadata
    /\ \A k \in DOMAIN c.metadata \ {K_imported_at} : c.metadata[k] = d.metadata[k]

\* every chunk of an assembly carries the time of that assembly
StampedAt(a) ==
    \A i \in 1..Len(a.chunks) :
        /\ K_imported_at \in DOMAIN a.chunks[i].metadata
        /\ a.chunks[i].metadata[K_imported_at] = MStr(IsoTime(a.at))

RECURSIVE StrToInt(_)
StrToInt(s) ==
    IF s = <<>> THEN 0
    ELSE 10 * StrToInt(SubSeq(s, 1, Len(s) - 1))
         + ((CHOOSE d \in 1..10 : DigitChars[d] = s[Len(s)]) - 1)

MetaInt(c, key) == StrToInt(c.metadata[key].v)

\* the ID the claim gives to chunk i of n of a section
ClaimedId(path, heading_path, i, n) ==
    slugify(RemoveSuffix(path, DotMd)) \o <<":", ":">> \o slugify(heading_path)
    \o (IF n > 1 THEN <<":", ":", "c", "h", "u", "n", "k", "-">> \o IntToStr(i) ELSE <<>>)

\* C7: a chunk's ID is slug(path without extension) :: slug(heading path),
\* with ::chunk-i exactly when its section gave n > 1 chunks; i runs over
\* 0..n-1 in chunk order, is the chunk_index metadata, and total_chunks = n.
C7_ChunkIdIsFunctionOfPosition ==
    hpc \in {"once", "twice"} =>
        LET cs == hout[1].chunks
            Idx(k) == MetaInt(cs[k], K_chunk_index)
            Tot(k) == MetaInt(cs[k], K_total_chunks)
            Path(k) == cs[k].metadata[K_heading_path].v
        IN  \A k \in 1..Len(cs) :
                /\ cs[k].chunk_id = ClaimedId(hin.filepath_rel, Path(k), Idx(k), Tot(k))
                /\ Idx(k) >= 0 /\ Idx(k) < Tot(k)
                /\ Idx(k) > 0 =>
                       (k > 1 /\ Idx(k - 1) = Idx(k) - 1 /\ Tot(k - 1) = Tot(k)
                        /\ Path(k - 1) = Path(k))
                /\ Idx(k) < Tot(k) - 1 =>
                       (k < Len(cs) /\ Idx(k + 1) = Idx(k) + 1 /\ Tot(k + 1) = Tot(k))
                /\ Idx(k) = 0 => (k = 1 \/ Idx(k - 1) = Tot(k - 1) - 1)

\* C7 witness: a file with a section of several chunks and a section of one
C7_Witness ==
    /\ hpc = "once"
    /\ \E k \in 1..Len(hout[1].chunks) : MetaInt(hout[1].chunks[k], K_total_chunks) > 1
    /\ \E k \in 1..Len(hout[1].chunks) : MetaInt(hout[1].chunks[k], K_total_chunks) = 1

\* ------------------------------------------------------------------------
\* Imports, one after the other, with notes written in between
\* ------------------------------------------------------------------------

Init == DriverInit
Next == DriverNext
Spec == Init /\ [][Next]_vars

\* an import is under way; last then tells how the one before it ended
InRun == pc # "idle"

\* the loop over the files is over and the state not yet saved
LoopDone == pc = "loop" /\ fi > Len(files)

\* the files this import made upsert calls for, and the files it parsed
UpsertedFiles == {ups[i].file : i \in 1..Len(ups)}
ParsedFiles == {r.file : r \in {x \in reads : x.by = "parse"}}

\* an import follows another one with the same command line, both
\* incremental, and no note was written in between
SecondOfTwo ==
    /\ InRun
    /\ last.end # "none"
    /\ args.incremental
    /\ last.args = args
    /\ edited = {}

Succeeded == {f \in UpsertedFiles : \A i \in 1..Len(ups) : ups[i].file = f => ups[i].ok}

\* an incremental import has gone through to its end and nothing was written since
SavedByRun ==
    /\ pc = "idle"
    /\ last.end = "completed"
    /\ last.args.incremental
    /\ edited = {}

\* C3: the state saved by an incremental import is the state it loaded,
\* overridden with the current mtime exactly at the files all of whose upsert
\* batches returned; a file that failed keeps its old entry or none, and that
\* entry is not the mtime of the content that failed.
C3_SavedStateIsLoadedPlusSucceeded ==
    SavedByRun =>
        /\ DOMAIN load_state(state_file) = DOMAIN state \cup Succeeded
        /\ \A f \in DOMAIN load_state(state_file) :
               load_state(state_file)[f] = IF f \in Succeeded THEN fs[f].mtime ELSE state[f]
        /\ \A f \in failed :
               f \in DOMAIN load_state(state_file) => load_state(state_file)[f] # fs[f].mtime

\* C3 witness: one file was upserted and recorded, another one failed and
\* keeps the entry of an earlier import
C3_Witness ==
    /\ SavedByRun
    /\ Succeeded # {}
    /\ \E f \in failed : f \in DOMAIN state /\ load_state(state_file)[f] = state[f]

\* C4 as stated: when an import has raised on a file, it has still gone
\* through to its end, counted one error for each such file, and processed
\* every other file it selected.
C4_FailureIsContained ==
    (pc = "idle" /\ failed # {}) =>
        /\ last.end = "completed"
        /\ stats.errors = Cardinality(failed)
        /\ SeqToSet(files) \ failed \subseteq ParsedFiles

\* the file has the entry of its current mtime in the state this import loaded
IsUnchanged(f) == f \in DOMAIN state /\ state[f] = fs[f].mtime

\* the incremental filter of this import has run, and the vault is as it saw it
Filtered ==
    /\ args.incremental
    /\ \/ pc \in {"connect", "loop", "upsert"}
       \/ pc = "idle" /\ runs > 0 /\ edited = {}

\* the discovered files without an entry or with another mtime
ChangedDiscovered ==
    {f \in SeqToSet(discover_files(fs, args.folder, args.tag, args.glob).files) : ~IsUnchanged(f)}

\* C5 as stated: an incremental import reads and parses exactly the
\* discovered files that are new or changed; a file whose entry equals its
\* mtime is never read.
C5_UnchangedFilesNeverRead ==
    Filtered =>
        /\ \A r \in reads : ~IsUnchanged(r.file)
        /\ LoopDone => ParsedFiles = ChangedDiscovered

\* C5 amended: an incremental import parses exactly the discovered files
\* that are new or changed and makes upsert calls only for files it parsed;
\* a file whose entry equals its mtime is never parsed or upserted, and is
\* read only by the tag filter of the discovery, which reads every candidate
\* file when a tag is given.
C5_UnchangedFilesReadOnlyByTagFilter ==
    Filtered =>
        /\ \A r \in reads : IsUnchanged(r.file) => (r.by = "tag" /\ args.tag # <<>>)
        /\ \A f \in ParsedFiles \cup UpsertedFiles : ~IsUnchanged(f)
        /\ UpsertedFiles \subseteq ParsedFiles
        /\ LoopDone => ParsedFiles = ChangedDiscovered

\* C5 witness: an import with a tag is through its files: it parsed the
\* changed one, and its tag filter had read an unchanged one
C5_Witness ==
    /\ Filtered
    /\ LoopDone
    /\ args.tag # <<>>
    /\ ParsedFiles # {}
    /\ \E r \in reads : IsUnchanged(r.file) /\ r.by = "tag"

\* the file a store entry was written for
OwnerOf(entry) == entry.metadata[K_source_file].v

\* every file had been imported when the previous import ended, and exactly
\* one was written since; the import under way is incremental
OneEditAfterFullImport ==
    /\ InRun
    /\ args.incremental
    /\ last.synced
    /\ Cardinality(edited) = 1

\* C6 as stated: the incremental import after one edit makes upsert calls
\* for the edited file only and leaves every store entry written for another
\* file as it was.
C6_OnlyEditedFileTouched ==
    OneEditAfterFullImport =>
        /\ UpsertedFiles \subseteq edited
        /\ \A id \in DOMAIN store0 :
               OwnerOf(store0[id]) \notin edited => store[id] = store0[id]

\* ------------------------------------------------------------------------
\* split_into_sections and the section merger on outlined documents
\* ------------------------------------------------------------------------

\* what a document is made of: headings of three levels, a short and a
\* long paragraph, a table row
OutlineItems == {"h1", "h2", "h3", "short", "long", "table"}
Outlines == UNION {[1..n -> OutlineItems] : n \in 0..MaxItems}

IsHeadingItem(kind) == kind \in {"h1", "h2", "h3"}
ItemLevel(kind) == IF kind = "h1" THEN 1 ELSE IF kind = "h2" THEN 2 ELSE 3

\* the heading at position k of an outline is named by the k-th letter
HeadingName(k) == <<UpperChars[k]>>

ShortPara == <<"t", "i", "n", "y", ".", "\n", "\n">>
TableRow == <<"|", "x", "|", "y", "|", "\n", "\n">>

ItemText(kind, k) ==
    IF IsHeadingItem(kind)
    THEN Repeat("#", ItemLevel(kind)) \o <<" ">> \o HeadingName(k) \o <<"\n">>
    ELSE IF kind = "short" THEN ShortPara
    ELSE IF kind = "long" THEN PiecePara
    ELSE TableRow

RECURSIVE OutlineText(_, _)
OutlineText(o, k) ==
    IF k > Len(o) THEN <<>> ELSE ItemText(o[k], k) \o OutlineText(o, k + 1)

SectionsInit ==
    /\ hin \in [outline : Outlines]
    /\ hout = <<>>
    /\ hpc = "ready"
    /\ clock = 0
    /\ DriverOff

\* parse_file, line 536
SplitCall ==
    /\ hpc = "ready"
    /\ hout' = [sections |-> split_into_sections(OutlineText(hin.outline, 1)), merged |-> <<>>]
    /\ hpc' = "split"
    /\ UNCHANGED <<clock, hin, driver_vars, history_vars>>

\* sections_to_chunks, lines 359-387
MergeCall ==
    /\ hpc = "split"
    /\ hout' = [hout EXCEPT !.merged = merge_sections(hout.sections)]
    /\ hpc' = "merged"
    /\ UNCHANGED <<clock, hin, driver_vars, history_vars>>

SectionsNext == SplitCall \/ MergeCall

SpecSections == SectionsInit /\ [][SectionsNext]_vars

\* the positions of the headings of an outline, in document order
HeadingItems(o) == Positions(1, Len(o), LAMBDA k : IsHeadingItem(o[k]))

\* the nearest heading before the j-th one that has a lower level; 0 if none
ParentHeading(o, hs, j) ==
    LET lower == {i \in 1..(j - 1) : ItemLevel(o[hs[i]]) < ItemLevel(o[hs[j]])}
    IN  IF lower = {} THEN 0 ELSE SetMax(lower)

\* the j-th heading below its ancestors, outermost first
RECURSIVE AncestorChain(_, _, _)
AncestorChain(o, hs, j) ==
    IF j = 0 THEN <<>> ELSE Append(AncestorChain(o, hs, ParentHeading(o, hs, j)), j)

ExpectedPath(o, hs, j) ==
    LET chain == AncestorChain(o, hs, j)
    IN  Join([i \in 1..Len(chain) |-> HeadingName(hs[chain[i]])], PathSep)

\* 1 if the document has text before its first heading
LeadingSections(o, hs) ==
    IF o = <<>> THEN 0
    ELSE IF hs = <<>> THEN 1
    ELSE IF hs[1] > 1 THEN 1 ELSE 0

\* C11: there is one section for each heading, in order, with the heading's
\* text and level; its heading path is the " > " join of the heading below
\* its chain of nearest preceding headings of lower level, so the levels
\* along a path strictly increase and no two headings of one level share it.
C11_HeadingPathIsAncestorChain ==
    hpc # "ready" =>
        LET o == hin.outline
            hs == HeadingItems(o)
            lead == LeadingSections(o, hs)
        IN  /\ Len(hout.sections) = lead + Len(hs)
            /\ \A j \in 1..Len(hs) :
                   /\ hout.sections[lead + j].heading = HeadingName(hs[j])
                   /\ hout.sections[lead + j].level = ItemLevel(o[hs[j]])
                   /\ hout.sections[lead + j].heading_path = ExpectedPath(o, hs, j)

\* C11 witness: headings A (level 1), B (level 2), C (level 2): the path of
\* C is "A > C"
C11_Witness ==
    /\ hpc = "split"
    /\ hin.outline = <<"h1", "h2", "h2">>
    /\ hout.sections[3].heading_path = <<"A">> \o PathSep \o <<"C">>

\* the text the merger takes from a section (line 364)
SecText(sec) == Strip(section_text(sec))

\* the section is below the minimum length and holds no table
IsShortSection(sec) == Len(SecText(sec)) < MIN_SECTION_LENGTH /\ ~has_table(sec.content)

\* the sections of secs from a to b, each text followed by a blank line
RECURSIVE RunText(_, _, _)
RunText(secs, a, b) ==
    IF a > b THEN <<>> ELSE SecText(secs[a]) \o ParaSep \o RunText(secs, a + 1, b)

\* the positions of the sections that are not folded, and how many of them
\* stand at or before position q
Standing(secs) == {q \in 1..Len(secs) : ~IsShortSection(secs[q])}
StandingUpTo(secs, q) == Cardinality({j \in Standing(secs) : j <= q})

\* where the run of short sections that holds position i begins
RunStart(secs, i) == SetMax({j \in Standing(secs) : j < i} \cup {0}) + 1

\* C12 as stated: a short section without a table is never the whole
\* content of a merged section, and its text begins the content of one.
C12_ShortSectionNeverStandsAlone ==
    hpc = "merged" =>
        \A i \in 1..Len(hout.sections) :
            IsShortSection(hout.sections[i]) =>
                /\ \A k \in 1..Len(hout.merged) :
                       hout.merged[k].content # SecText(hout.sections[i])
                /\ \E k \in 1..Len(hout.merged) :
                       StartsWith(hout.merged[k].content, SecText(hout.sections[i]))

\* C12 amended: a short section without a table that is followed by a
\* section which is not folded is part of the merged section made from the
\* first such section: the texts of its run, in order, begin that content
\* and the section's own text follows them. A short section with no such
\* successor ends the content of the last merged section, or, when every
\* section is short, all of them together are the one headingless section.
C12_ShortSectionIsAbsorbed ==
    hpc = "merged" =>
        LET secs == hout.sections
            n == Len(secs)
        IN  \A i \in 1..n :
                IsShortSection(secs[i]) =>
                    LET later == {q \in Standing(secs) : q > i}
                        r == RunStart(secs, i)
                    IN  IF later # {}
                        THEN LET q == SetMin(later)
                                 m == hout.merged[StandingUpTo(secs, q)]
                             IN  /\ StartsWith(m.content, RunText(secs, r, q - 1) \o SecText(secs[q]))
                                 /\ m.heading_path = secs[q].heading_path
                        ELSE IF Standing(secs) # {}
                        THEN /\ Len(hout.merged) = Cardinality(Standing(secs))
                             /\ EndsWith(hout.merged[Len(hout.merged)].content,
                                         ParaSep \o Strip(RunText(secs, r, n)))
                        ELSE hout.merged = <<Section(<<>>, 0, Strip(RunText(secs, 1, n)), <<>>)>>

\* C12 witness: a short section is folded into the section after it, and
\* another one, the last of the document, into the section before it
C12_Witness ==
    /\ hpc = "merged"
    /\ Len(hout.sections) = 3
    /\ IsShortSection(hout.sections[1])
    /\ ~IsShortSection(hout.sections[2])
    /\ IsShortSection(hout.sections[3])
    /\ Len(hout.merged) = 1

\* the k-th merged section the claim describes: the k-th standing section
\* with the run of short sections before it at the head of its content and,
\* for the last one, the short sections after it at the end
ExpectedMergedAt(secs, k) ==
    LET q == CHOOSE p \in Standing(secs) : StandingUpTo(secs, p) = k
        head == RunText(secs, RunStart(secs, q), q - 1) \o SecText(secs[q])
        tail == IF k = Cardinality(Standing(secs)) /\ q < Len(secs)
                THEN ParaSep \o Strip(RunText(secs, q + 1, Len(secs)))
                ELSE <<>>
    IN  Section(secs[q].heading, secs[q].level, head \o tail, secs[q].heading_path)

ExpectedMerged(secs) ==
    IF secs = <<>> THEN <<>>
    ELSE IF Standing(secs) = {}
    THEN <<Section(<<>>, 0, Strip(RunText(secs, 1, Len(secs))), <<>>)>>
    ELSE [k \in 1..Cardinality(Standing(secs)) |-> ExpectedMergedAt(secs, k)]

\* C20: the merger gives one section for each section that is not folded
\* (not short, or with a table), with that section's heading, level and
\* path; the run of short sections before it begins its content, in document
\* order; the short sections after the last one are appended to it, and when
\* none stands they form one headingless level-0 section with empty path.
C20_MergerFoldsRunsForward ==
    hpc = "merged" => hout.merged = ExpectedMerged(hout.sections)

\* C20 witness: a run of two short sections before a section with a table,
\* which is below the minimum length itself and is not folded
C20_Witness ==
    /\ hpc = "merged"
    /\ Len(hout.sections) = 3
    /\ IsShortSection(hout.sections[1])
    /\ IsShortSection(hout.sections[2])
    /\ has_table(hout.sections[3].content)
    /\ Len(SecText(hout.sections[3])) < MIN_SECTION_LENGTH
    /\ Len(hout.merged) = 1
    /\ StartsWith(hout.merged[1].content, SecText(hout.sections[1]) \o ParaSep \o SecText(hout.sections[2]))

\* ------------------------------------------------------------------------
\* parse_file on the documents of the scenarios
\* ------------------------------------------------------------------------

IntroName == <<"I", "n", "t", "r", "o">>
DetailsName == <<"D", "e", "t", "a", "i", "l", "s">>

\* a body of n characters on one line; no body for n = 0
BodyOf(n) == IF n = 0 THEN <<>> ELSE Repeat("x", n) \o <<"\n">>

\* two level-1 headings, Intro and Details, with bodies of n1 and n2 characters
TwoHeadingDoc(n1, n2) ==
    <<"#", " ">> \o IntroName \o <<"\n">> \o BodyOf(n1)
    \o <<"#", " ">> \o DetailsName \o <<"\n">> \o BodyOf(n2)

ScenarioLens == {0, 5, 41, 60, 85, 95}
ScenarioSizes == {100, DEFAULT_CHUNK_SIZE}

TagRef == <<"r", "e", "f">>
TagHowto == <<"h", "o", "w", "t", "o">>

\* front matter "tags: [ref, howto]"
TagsFront ==
    Dashes \o <<"\n", "t", "a", "g", "s", ":", " ", "[">> \o TagRef \o CommaSpace
    \o TagHowto \o <<"]", "\n">> \o Dashes \o <<"\n">>

\* bodies without headings: none, a line, a paragraph, two paragraphs, a
\* line with an inline tag
TagBodies ==
    << <<>>,
       <<"S", "o", "m", "e", " ", "t", "e", "x", "t", ".", "\n">>,
       PiecePara,
       PiecePara \o PiecePara,
       <<"S", "e", "e", " ", "#", "z", "e", "t", "a", ".", "\n">> >>

\* lines a document can begin its front matter with, or fail to close it with
FrontLines ==
    { Dashes, Dashes \o <<" ">>, Dashes \o <<"x">>, <<"a", ":", " ", "1">>, <<>> }

FrontDocs == UNION {[1..n -> FrontLines] : n \in 0..MaxLines}

\* the lines joined by line breaks, with or without one at the end
LinesText(lines, closed) == Join(lines, <<"\n">>) \o (IF closed THEN <<"\n">> ELSE <<>>)

ScenarioInput(kind, a, b, lines, content, size) ==
    [kind |-> kind, a |-> a, b |-> b, lines |-> lines, content |-> content,
     max_chunk_size |-> size, chunk_overlap |-> 0]

ScenarioInputs ==
    {ScenarioInput("two", n1, n2, <<>>, TwoHeadingDoc(n1, n2), size) :
        n1 \in ScenarioLens, n2 \in ScenarioLens, size \in ScenarioSizes}
    \cup {ScenarioInput("tags", k, 0, <<>>, TagsFront \o TagBodies[k], size) :
        k \in 1..Len(TagBodies), size \in ScenarioSizes}
    \cup {ScenarioInput("front", IF nl THEN 1 ELSE 0, 0, lines, LinesText(lines, nl), DEFAULT_CHUNK_SIZE) :
        lines \in FrontDocs, nl \in BOOLEAN}

ScenarioPath == <<"n", "/", "M", "y", " ", "N", "o", "t", "e", ".", "m", "d">>

ScenarioInit ==
    /\ hin \in ScenarioInputs
    /\ hout = <<>>
    /\ hpc = "ready"
    /\ clock = 0
    /\ DriverOff

\* parse_file, line 524
FrontCall ==
    /\ hpc = "ready"
    /\ hout' = [parsed |-> parse_frontmatter(hin.content), chunks |-> <<>>]
    /\ hpc' = "parsed"
    /\ UNCHANGED <<clock, hin, driver_vars, history_vars>>

\* parse_file, lines 527-542
ChunksCall ==
    /\ hpc = "parsed"
    /\ hout' = [hout EXCEPT !.chunks = chunks_of_parsed(hout.parsed, ScenarioPath, hin.max_chunk_size, hin.chunk_overlap, IsoTime(clock))]
    /\ hpc' = "done"
    /\ UNCHANGED <<clock, hin, driver_vars, history_vars>>

ScenarioNext == FrontCall \/ ChunksCall

SpecScenario == ScenarioInit /\ [][ScenarioNext]_vars

\* the heading paths of the chunks, in order
ChunkPaths(cs) == [i \in 1..Len(cs) |-> cs[i].metadata[K_heading_path].v]

\* the length of a section as rendered: heading line, blank line, body
RenderedLen(name, n) == 2 + Len(name) + (IF n > 0 THEN 2 + n ELSE 0)

\* the length of the text the chunker gets for a section that is not folded:
\* the heading line and a blank line before the rendered section
ChunkerLen(name, n) == 2 + Len(name) + 2 + RenderedLen(name, n)

\* C13 as stated: two level-1 headings Intro and Details, each with a body
\* under the size limit, of any length from empty on, give exactly two
\* chunks, with the heading paths Intro and Details.
C13_TwoHeadingsTwoChunks ==
    (hpc = "done" /\ hin.kind = "two"
        /\ hin.a < hin.max_chunk_size /\ hin.b < hin.max_chunk_size) =>
        ChunkPaths(hout.chunks) = <<IntroName, DetailsName>>

\* C13 amended: when each of the two sections is at least the minimum
\* section length long as rendered, and the text the chunker gets for it is
\* no longer than the size limit, the file gives exactly two chunks, with
\* the heading paths Intro and Details in that order.
C13_TwoStandingHeadingsTwoChunks ==
    (hpc = "done" /\ hin.kind = "two"
        /\ RenderedLen(IntroName, hin.a) >= MIN_SECTION_LENGTH
        /\ RenderedLen(DetailsName, hin.b) >= MIN_SECTION_LENGTH
        /\ ChunkerLen(IntroName, hin.a) <= hin.max_chunk_size
        /\ ChunkerLen(DetailsName, hin.b) <= hin.max_chunk_size) =>
        ChunkPaths(hout.chunks) = <<IntroName, DetailsName>>

\* C13 witness: the Intro section is exactly the minimum length long, the
\* limit is the small one, and there are the two chunks
C13_Witness ==
    /\ hpc = "done"
    /\ hin.kind = "two"
    /\ RenderedLen(IntroName, hin.a) = MIN_SECTION_LENGTH
    /\ hin.b = 60
    /\ hin.max_chunk_size = 100
    /\ ChunkPaths(hout.chunks) = <<IntroName, DetailsName>>

\* the keys of a metadata map that come from the front matter
FmKeys(metadata) == {k \in DOMAIN metadata : StartsWith(k, FmPrefix)}

\* C14 as stated: front matter "tags: [ref, howto]" and a body without
\* headings (here one that is not blank and has no tag of its own) give
\* exactly one chunk, with the empty heading path, whose tag list is ref
\* followed by howto.
C14_FrontTagsInFrontOrder ==
    (hpc = "done" /\ hin.kind = "tags"
        /\ Strip(TagBodies[hin.a]) # <<>>
        /\ extract_inline_tags(TagBodies[hin.a]) = <<>>) =>
        /\ Len(hout.chunks) = 1
        /\ hout.chunks[1].metadata[K_heading_path].v = <<>>
        /\ K_tags \in DOMAIN hout.chunks[1].metadata
        /\ hout.chunks[1].metadata[K_tags].v = TagRef \o CommaSpace \o TagHowto

\* C14 amended: when the body is not blank, holds no inline tag and is no
\* longer than the size limit, there is exactly one chunk, with the empty
\* heading path; its "tags" is the string "howto, ref", the tags sorted,
\* and its "fm_tags" is "ref, howto", the tags in front-matter order.
C14_FrontTagsSorted ==
    (hpc = "done" /\ hin.kind = "tags"
        /\ Strip(TagBodies[hin.a]) # <<>>
        /\ extract_inline_tags(TagBodies[hin.a]) = <<>>
        /\ Len(Strip(TagBodies[hin.a])) <= hin.max_chunk_size) =>
        /\ Len(hout.chunks) = 1
        /\ hout.chunks[1].metadata[K_heading_path].v = <<>>
        /\ hout.chunks[1].metadata[K_tags] = MStr(TagHowto \o CommaSpace \o TagRef)
        /\ hout.chunks[1].metadata[FmPrefix \o K_tags] = MStr(TagRef \o CommaSpace \o TagHowto)

\* C14 witness: the one chunk of a paragraph under the front matter
C14_Witness ==
    /\ hpc = "done"
    /\ hin.kind = "tags"
    /\ TagBodies[hin.a] = PiecePara
    /\ Len(hout.chunks) = 1
    /\ hout.chunks[1].text = Strip(PiecePara)
    /\ hout.chunks[1].metadata[K_tags].v = TagHowto \o CommaSpace \o TagRef

\* the document begins with the front-matter delimiter
FrontOpened(lines) == lines # <<>> /\ StartsWith(lines[1], Dashes)

\* a later line is the delimiter, alone but for blanks, and has its line break
FrontClosed(lines, nl) ==
    \E k \in 2..Len(lines) :
        /\ lines[k] \in {Dashes, Dashes \o <<" ">>}
        /\ (k < Len(lines) \/ nl)

\* C15: a text that does not begin with the delimiter, or whose delimiter is
\* not closed, comes back with empty metadata and itself as the body; the
\* file is chunked from that body: its one chunk is the whole text, without
\* the blanks around it, and has no front-matter key.
C15_NoFrontMatterKeepsWholeText ==
    (hpc # "ready" /\ hin.kind = "front"
        /\ (~FrontOpened(hin.lines) \/ ~FrontClosed(hin.lines, hin.a = 1))) =>
        /\ hout.parsed = [fm |-> EmptyMap, body |-> hin.content]
        /\ hpc = "done" =>
               IF Strip(hin.content) = <<>> THEN hout.chunks = <<>>
               ELSE /\ Len(hout.chunks) = 1
                    /\ hout.chunks[1].text = Strip(hin.content)
                    /\ FmKeys(hout.chunks[1].metadata) = {}

\* C15 witness: front matter that is opened, has a key line, and ends with
\* a delimiter that has no line break after it
C15_Witness ==
    /\ hpc = "done"
    /\ hin.kind = "front"
    /\ hin.lines = <<Dashes, <<"a", ":", " ", "1">>, Dashes>>
    /\ hin.a = 0
    /\ Len(hout.chunks) = 1
    /\ StartsWith(hout.chunks[1].text, Dashes)

\* ------------------------------------------------------------------------
\* chunk_text on a paragraph that is too long
\* ------------------------------------------------------------------------

\* the paragraph is longer than max_size and has two sentences or more
IsSplittable(para, max_size) ==
    /\ Len(para) > max_size
    /\ Cardinality({i \in 1..Len(split_sentences(para)) : split_sentences(para)[i] # <<>>}) >= 2

\* C19: a paragraph that alone exceeds max_size, wherever it stands in the
\* text, is split by sentences: no chunk holds the whole of such a paragraph
\* when it has more than one sentence.
C19_LongParagraphIsSplitBySentences ==
    (hpc = "done" /\ hin # <<>> /\ Len(hin.text) > hin.max_size) =>
        \A p \in SeqToSet(Split(hin.text, ParaSep)) :
            IsSplittable(p, hin.max_size) =>
                \A i \in 1..Len(hout) : ~Contains(hout[i], p)

\* ------------------------------------------------------------------------
\* The end of an import: the summary, the fatal exits, the upsert calls
\* ------------------------------------------------------------------------

\* the import got past the vault check and the connection and went through
\* all its files
LoopFinished == pc = "idle" /\ last.end \in {"completed", "summary"}

\* the counts the summary of the last import named
ReportedCounts == {r.count : r \in last.reported}

\* C16: an import that got past the fatal checks and went through all its
\* files has reported the three counts, files imported, chunks upserted and
\* errors, whether no file, some files or all files failed.
C16_SummaryReportsThreeCounts ==
    LoopFinished => ReportedCounts = {"files", "chunks", "errors"}


\* the last import was aborted: the vault was absent, or the store gave no
\* handle
Aborted == pc = "idle" /\ last.end = "fatal"

\* C17: an import aborted at the vault check or at the connection to the
\* store has parsed no file and made no upsert call, and the state file and
\* the store are as they were when it started.
C17_FatalRunTouchesNothing ==
    Aborted =>
        /\ ParsedFiles = {}
        /\ ups = <<>>
        /\ state_file = state_file0
        /\ store = store0

\* C17 witness: the store gave no handle to an import that had files to
\* process and whose tag filter had read them, when an earlier import had
\* already filled the store and written the state file
C17_Witness ==
    /\ Aborted
    /\ files # <<>>
    /\ store # EmptyStore
    /\ state_file.kind = "json"
    /\ \E r \in reads : r.by = "tag"


\* ------------------------------------------------------------------------
\* Imports of a note that has more chunks than one upsert call carries
\* ------------------------------------------------------------------------

\* a note of batch_size + 1 paragraphs of one letter, a, b, c and so on,
\* with a blank line between two
BigNote ==
    [i \in 1..(3 * batch_size + 1) |-> IF i % 3 = 1 THEN LowerChars[((i \div 3) % 26) + 1] ELSE "\n"]

\* --chunk-size 3 --chunk-overlap 0: no two paragraphs of the note fit in
\* one chunk
BatchArgs ==
    {[Args(inc, <<>>, <<>>, <<>>) EXCEPT !.chunk_size = 3, !.chunk_overlap = 0] : inc \in BOOLEAN}

BatchVaults ==
    { (FileC :> File(BigNote, 0, "none")) @@ (FileND :> File(DocAlpha, 0, "none")),
      (FileC :> File(DocAlpha, 0, "none")) @@ (FileND :> File(BigNote, 0, "none")) }

BatchInit ==
    /\ fs \in BatchVaults
    /\ state_file = StateFile("missing", EmptyState)
    /\ store = EmptyStore
    /\ pc = "idle"
    /\ args = NoArgs
    /\ files = <<>>
    /\ fi = 1
    /\ state = EmptyState
    /\ new_state = EmptyState
    /\ stats = ZeroStats
    /\ chunks = <<>>
    /\ batch_i = 0
    /\ runs = 0
    /\ nfail = 0
    /\ reads = {}
    /\ ups = <<>>
    /\ failed = {}
    /\ store0 = EmptyStore
    /\ state_file0 = state_file
    /\ last = NoRun
    /\ edited = {}
    /\ clock = 0
    /\ hin = <<>>
    /\ hout = <<>>
    /\ hpc = "off"

BatchNext ==
    \/ \E a \in BatchArgs : Discover(a)
    \/ FilterChanged
    \/ \E ok \in BOOLEAN : Connect(ok)
    \/ ParseFile
    \/ \E ok \in BOOLEAN : UpsertBatch(ok)
    \/ \E ok \in BOOLEAN : Finish(ok)

SpecBatch == BatchInit /\ [][BatchNext]_vars

\* the chunk list parse_file gives for a file of the vault
FileChunks(f) ==
    parse_file(fs[f].content, f, args.chunk_size, args.chunk_overlap, IsoTime(clock))

\* the positions in ups of the calls made for a file
CallsFor(f) == {i \in 1..Len(ups) : ups[i].file = f}

\* the chunks a call carried, put together again from its three lists
CarriedChunks(u) ==
    [i \in 1..Len(u.ids) |-> Chunk(u.documents[i], u.metadatas[i], u.ids[i])]

\* the call carries at most batch_size chunks, and ids, documents and
\* metadatas are, position by position, those of consecutive chunks of the
\* list, all of the call's file
CallIsAligned(u, list) ==
    /\ Len(u.ids) \in 1..batch_size
    /\ Len(u.documents) = Len(u.ids)
    /\ Len(u.metadatas) = Len(u.ids)
    /\ u.at + Len(u.ids) <= Len(list)
    /\ CarriedChunks(u) = SubSeq(list, u.at + 1, u.at + Len(u.ids))
    /\ \A i \in 1..Len(u.ids) : u.metadatas[i][K_source_file].v = u.file

\* the calls of a file are next to each other in ups, and the k-th starts
\* where the one before it stopped: at the chunk after the first
\* (k - 1) * batch_size, and it carries a whole batch unless the list ends
CallsInOrder(f, n) ==
    \A i \in CallsFor(f) :
        /\ \A j \in CallsFor(f) : \A m \in j..i : m \in CallsFor(f)
        /\ ups[i].at = (Cardinality({j \in CallsFor(f) : j <= i}) - 1) * batch_size
        /\ Len(ups[i].ids) = IF ups[i].at + batch_size <= n THEN batch_size ELSE n - ups[i].at

\* the number of chunks the calls of a file carried
Carried(f) == ups[SetMax(CallsFor(f))].at + Len(ups[SetMax(CallsFor(f))].ids)

\* a call made for the file raised
Raised(f) == \E i \in CallsFor(f) : ~ups[i].ok

\* the import is done with the file
DoneWith(f) == ~(pc = "upsert" /\ files[fi] = f)

\* the calls made for a file, against its chunk list
CallsOfFileAligned(f, list) ==
    /\ \A i \in CallsFor(f) : CallIsAligned(ups[i], list)
    /\ CallsInOrder(f, Len(list))

\* no file after the current one was parsed or upserted, and the files come
\* in ups in the order of the loop
OneFileAtATime ==
    /\ \A f \in ParsedFiles \cup UpsertedFiles :
           \E k \in 1..Len(files) : files[k] = f /\ (k < fi \/ (k = fi /\ pc = "upsert"))
    /\ \A i, j \in 1..Len(ups) :
           i < j => \E k, m \in 1..Len(files) : k <= m /\ files[k] = ups[i].file /\ files[m] = ups[j].file

\* C18 as stated: every upsert call carries at most 100 chunks, ids,
\* documents and metadatas aligned and of one file; the calls of a file
\* carry its chunk list once, in order and to its end; and the import is
\* done with a file before it parses the next.
C18_CallsCoverWholeChunkList ==
    /\ \A f \in UpsertedFiles : \E list \in {FileChunks(f)} :
           /\ CallsOfFileAligned(f, list)
           /\ DoneWith(f) => Carried(f) = Len(list)
    /\ OneFileAtATime

\* C18 amended: every upsert call carries at most 100 chunks, ids,
\* documents and metadatas aligned and of one file; the calls of a file
\* carry its chunk list once and in order, up to and including the first
\* call that raises, after which no other call is made for the file, and to
\* the end of the list when no call raises; and the import is done with a
\* file before it parses the next.
C18_CallsCoverChunkListUpToFailure ==
    /\ \A f \in UpsertedFiles : \E list \in {FileChunks(f)} :
           /\ CallsOfFileAligned(f, list)
           /\ \A i \in CallsFor(f) : ~ups[i].ok => (i = SetMax(CallsFor(f)) /\ DoneWith(f))
           /\ (DoneWith(f) /\ ~Raised(f)) => Carried(f) = Len(list)
           /\ ~DoneWith(f) => Carried(f) = batch_i
    /\ OneFileAtATime

\* C18 witness: the note went to the store in two calls, of batch_size
\* chunks and of one, and the other file in a third
C18_Witness ==
    /\ Len(ups) = 3
    /\ \A i \in 1..3 : ups[i].ok
    /\ ups[1].file = ups[2].file
    /\ ups[3].file # ups[1].file
    /\ Len(ups[1].ids) = batch_size
    /\ ups[2].at = batch_size
    /\ Len(ups[2].ids) = 1


\* ------------------------------------------------------------------------
\* parse_file on notes made of front matter and a few sections
\* ------------------------------------------------------------------------

\* a heading whose slug is that of PieceHeadA
PieceHeadABang == <<"#", " ", "A", "!", "\n", "\n">>

\* a paragraph with an inline tag and a link, then the long paragraph
BodyTagged == PieceTag \o PiecePara

\* a fenced code block that holds a line "#code", then the long paragraph
BodyFenced == Fence \o <<"\n", "#", "c", "o", "d", "e", "\n">> \o Fence \o <<"\n", "\n">> \o PiecePara

\* one line of n wiki links, [[a]] [[b]] and so on
LinksLine(n) ==
    [i \in 1..(7 * n) |->
        CASE i % 7 \in {1, 2} -> "["
          [] i % 7 = 3 -> LowerChars[((i - 1) \div 7) + 1]
          [] i % 7 \in {4, 5} -> "]"
          [] i % 7 = 6 -> " "
          [] OTHER -> IF i = 7 * n THEN "\n" ELSE " "]

\* more links than the cap of line 421 lets through
BodyLinks == LinksLine(LinkCap + 2) \o <<"\n">>

NoteHeads == <<PieceHeadA, PieceHeadABang, PieceHeadB, <<>> >>
NoteBodies == <<PiecePara, BodyTagged, BodyFenced, BodyLinks, ShortPara>>
NoteFronts == <<<<>>, PieceFront>>

\* a section of a note: which heading and which body
NoteItems == [head : 1..Len(NoteHeads), body : 1..Len(NoteBodies)]
NoteOutlines == UNION {[1..n -> NoteItems] : n \in 1..MaxSections}

ItemTextOf(it) == NoteHeads[it.head] \o NoteBodies[it.body]

\* the text of a note: its front matter, then its sections
NoteText(front, items) ==
    NoteFronts[front]
    \o (IF Len(items) >= 1 THEN ItemTextOf(items[1]) ELSE <<>>)
    \o (IF Len(items) >= 2 THEN ItemTextOf(items[2]) ELSE <<>>)
    \o (IF Len(items) >= 3 THEN ItemTextOf(items[3]) ELSE <<>>)

NoteSizes == {60, DEFAULT_CHUNK_SIZE}

NotesInit ==
    /\ hin \in {[front |-> f, items |-> o, content |-> NoteText(f, o), max_chunk_size |-> size, chunk_overlap |-> 0] :
                   f \in 1..Len(NoteFronts), o \in NoteOutlines, size \in NoteSizes}
    /\ hout = <<>>
    /\ hpc = "ready"
    /\ clock = 0
    /\ DriverOff

\* parse_file, lines 524 and 536: the front matter is taken off and the
\* body split
NoteSplit ==
    /\ hpc = "ready"
    /\ hout' = [parsed |-> parse_frontmatter(hin.content),
                sections |-> split_into_sections(parse_frontmatter(hin.content).body),
                chunks |-> <<>>]
    /\ hpc' = "split"
    /\ UNCHANGED <<clock, hin, driver_vars, history_vars>>

\* parse_file, lines 517-542
NoteAssemble ==
    /\ hpc = "split"
    /\ hout' = [hout EXCEPT !.chunks = parse_file(hin.content, ScenarioPath, hin.max_chunk_size, hin.chunk_overlap, IsoTime(clock))]
    /\ hpc' = "done"
    /\ UNCHANGED <<clock, hin, driver_vars, history_vars>>

NotesNext == NoteSplit \/ NoteAssemble

SpecNotes == NotesInit /\ [][NotesNext]_vars

\* the tags a chunk's metadata names
TagSet(c) ==
    IF K_tags \in DOMAIN c.metadata
    THEN SeqToSet(Split(c.metadata[K_tags].v, CommaSpace))
    ELSE {}

\* C21: every chunk of a file is tagged with the front-matter tags and the
\* inline tags found anywhere in the body of the file (here: of a file
\* without code fences), so a tag written in one section is on the chunks
\* of every other section.
C21_ChunksCarryBodyWideTags ==
    (hpc = "done" /\ ~Contains(hin.content, Fence)) =>
        \A i \in 1..Len(hout.chunks) :
            TagSet(hout.chunks[i]) =
                SeqToSet(file_level_tags(hout.parsed.fm))
                \cup SeqToSet(extract_inline_tags(hout.parsed.body))


\* ------------------------------------------------------------------------
\* extract_inline_tags on short texts with code fences
\* ------------------------------------------------------------------------

\* what a text is made of: a fence, a tag in lower and in upper case, a
\* line break, a blank, a letter
TagTokens == {Fence, <<"#", "a">>, <<"#", "A">>, <<"\n">>, <<" ">>, <<"x">>}

RECURSIVE TextsOfTokens(_)
TextsOfTokens(n) ==
    IF n = 0 THEN {<<>>}
    ELSE {t \o d : t \in TagTokens, d \in TextsOfTokens(n - 1)}

TagTexts == UNION {TextsOfTokens(n) : n \in 0..MaxTokens}

TagsInit ==
    /\ hin \in TagTexts
    /\ hout = <<>>
    /\ hpc = "ready"
    /\ clock = 0
    /\ DriverOff

TagsCall ==
    /\ hpc = "ready"
    /\ hout' = extract_inline_tags(hin)
    /\ hpc' = "done"
    /\ UNCHANGED <<clock, hin, driver_vars, history_vars>>

TagsNext == TagsCall

SpecTags == TagsInit /\ [][TagsNext]_vars

\* the number of the line (from 1) that holds offset q of the text
LineOf(text, q) == 1 + Cardinality({i \in 1..q : text[i] = "\n"})

\* the lines of the text that begin with a fence, in order
FenceLines(text) ==
    LET lines == Split(text, <<"\n">>)
        IsFenceLine(k) == StartsWith(lines[k], Fence)
    IN  Positions(1, Len(lines), IsFenceLine)

\* line k lies between an opening fence and the fence that closes it
InsideFence(text, k) ==
    \E j \in 1..Len(FenceLines(text)) :
        /\ j % 2 = 1
        /\ j + 1 <= Len(FenceLines(text))
        /\ FenceLines(text)[j] < k
        /\ k < FenceLines(text)[j + 1]

\* a tag is written at offset q of the text: "#" at the start of a line or
\* after whitespace, then a letter
TagWrittenAt(text, q) ==
    /\ q + 2 <= Len(text)
    /\ text[q + 1] = "#"
    /\ IsAlpha(text[q + 2])
    /\ (q = 0 \/ IsSpace(text[q]))

\* the tag written at offset q, in lower case
TagAt(text, q) == Lower(Slice(text, q + 1, q + 1 + RunWhile(text, q + 1, IsTagBody)))

\* the offsets at which tag t is written
WrittenAt(text, t) == {q \in 0..Len(text) : TagWrittenAt(text, q) /\ TagAt(text, q) = t}

\* C22: extract_inline_tags gives each tag once, in lower case, in the order
\* of the first occurrences, and gives no tag that is written only on lines
\* between an opening and a closing code fence.
C22_NoTagFromFencedLines ==
    hpc = "done" =>
        /\ \A i, j \in 1..Len(hout) : i # j => hout[i] # hout[j]
        /\ \A i \in 1..Len(hout) : hout[i] = Lower(hout[i])
        /\ \A i, j \in 1..Len(hout) :
               (i < j /\ WrittenAt(hin, hout[i]) # {} /\ WrittenAt(hin, hout[j]) # {}) =>
                   SetMin(WrittenAt(hin, hout[i])) < SetMin(WrittenAt(hin, hout[j]))
        /\ \A i \in 1..Len(hout) :
               \A q \in WrittenAt(hin, hout[i]) :
                   InsideFence(hin, LineOf(hin, q)) =>
                       \E r \in WrittenAt(hin, hout[i]) : ~InsideFence(hin, LineOf(hin, r))


\* ------------------------------------------------------------------------
\* Metadata of the chunks of a note, for the front matter a YAML loader
\* can hand over (l.130-136): scalars, lists, nested objects, nulls
\* ------------------------------------------------------------------------

K_n == <<"n">>

\* keys a front matter may hold; source_file and links are also the names
\* of structural keys
MetaKeys == {K_tags, K_source_file, K_links, K_n}

MetaValues ==
    {MStr(<<"r">>), MInt(3), MBool(TRUE), MNone, MDict,
     MList(<<>>), MList(<<MDict, MNone>>), MList(<<MStr(<<"r">>), MDict, MInt(3)>>)}

\* at most MaxItems - 2 keys
MetaFronts ==
    UNION {[ks -> MetaValues] : ks \in {s \in SUBSET MetaKeys : Cardinality(s) <= MaxItems - 2}}

MetaBodies == {PieceHeadA \o BodyLinks, PieceHeadA \o BodyTagged \o PieceHeadB \o PiecePara}

MetaInit ==
    /\ hin \in [fm : MetaFronts, body : MetaBodies, max_chunk_size : NoteSizes]
    /\ hout = <<>>
    /\ hpc = "ready"
    /\ clock = 0
    /\ DriverOff

\* l.527-541 on a front matter and a body
MetaCall ==
    /\ hpc = "ready"
    /\ hout' = chunks_of_parsed([fm |-> hin.fm, body |-> hin.body], ScenarioPath,
                                hin.max_chunk_size, 0, IsoTime(clock))
    /\ hpc' = "done"
    /\ UNCHANGED <<clock, hin, driver_vars, history_vars>>

MetaNext == MetaCall

SpecMeta == MetaInit /\ [][MetaNext]_vars

StructuralKeys ==
    {K_source_file, K_heading_path, K_heading_level, K_chunk_index, K_total_chunks,
     K_char_count, K_has_table, K_has_code, K_tags, K_links, K_imported_at}

\* the chunks of the same body and the same file-level tags when there is
\* no front matter to merge
StructuralChunks ==
    sections_to_chunks(split_into_sections(hin.body), ScenarioPath, EmptyMap,
                       file_level_tags(hin.fm), hin.max_chunk_size, 0, IsoTime(clock))

\* what flattening drops: nested objects, nulls, lists without a scalar
IsDropped(value) ==
    \/ value.t \in {"dict", "none"}
    \/ value.t = "list" /\ \A i \in 1..Len(value.v) : ~IsScalar(value.v[i])

\* C23: every key of a chunk's metadata that is not structural is a
\* front-matter key with the prefix and holds a scalar (nested objects and
\* nulls are dropped, a list becomes one string); every structural key holds
\* the value computed without the front matter; links names at most 20
\* targets.
C23_FrontMatterKeysArePrefixedScalars ==
    hpc = "done" =>
        \E plain \in {StructuralChunks}, targets \in {extract_links(hin.body)} :
            /\ Len(hout) = Len(plain)
            /\ \A i \in 1..Len(hout) :
                   LET md == hout[i].metadata
                   IN  /\ \A k \in DOMAIN md \ StructuralKeys :
                              /\ StartsWith(k, FmPrefix)
                              /\ SliceFrom(k, Len(FmPrefix)) \in DOMAIN hin.fm
                              /\ IsScalar(md[k])
                       /\ \A k \in DOMAIN hin.fm :
                              /\ IsDropped(hin.fm[k]) => (FmPrefix \o k) \notin DOMAIN md
                              /\ ~IsDropped(hin.fm[k]) => (FmPrefix \o k) \in DOMAIN md
                              /\ (hin.fm[k].t = "list" /\ ~IsDropped(hin.fm[k])) =>
                                     md[FmPrefix \o k].t = "str"
                       /\ \A k \in StructuralKeys :
                              /\ (k \in DOMAIN md) = (k \in DOMAIN plain[i].metadata)
                              /\ k \in DOMAIN md => md[k] = plain[i].metadata[k]
                       /\ md[K_source_file] = MStr(ScenarioPath)
                       /\ md[K_char_count] = MInt(Len(hout[i].text))
                       /\ md[K_imported_at] = MStr(IsoTime(clock))
                       /\ K_links \in DOMAIN md =>
                              \E n \in 1..LinkCap :
                                  /\ n <= Len(targets)
                                  /\ md[K_links] = MStr(Join(Slice(targets, 0, n), CommaSpace))

\* a front matter with a scalar under the name of a structural key, a
\* nested object and a list, on the body of more than 20 links
C23_Witness ==
    /\ hpc = "done"
    /\ DOMAIN hin.fm = {K_source_file, K_n}
    /\ hin.fm[K_source_file].t = "str"
    /\ hin.fm[K_n].t = "list"
    /\ ~IsDropped(hin.fm[K_n])
    /\ Len(extract_links(hin.body)) > LinkCap
    /\ Len(hout) >= 1
    /\ K_links \in DOMAIN hout[1].metadata
    /\ (FmPrefix \o K_source_file) \in DOMAIN hout[1].metadata


\* the heading line of a section: its markers, a blank, its heading
HeadingLine(sec) == Repeat("#", sec.level) \o <<" ">> \o sec.heading

\* the rendered text of a section: the heading line, a blank line, the content
Rendered(sec) == HeadingLine(sec) \o <<"\n", "\n">> \o sec.content

\* the section stands alone: it has a heading, its rendered text is not
\* short and fits into one chunk
StandsAlone(sec, max_size) ==
    /\ sec.heading # <<>>
    /\ Len(Rendered(sec)) >= MIN_SECTION_LENGTH
    /\ Len(Rendered(sec)) <= max_size

\* the number of places at which pat occurs in s
CountOf(s, pat) == Cardinality(Occurrences(s, pat))

\* C24: in a note whose sections all stand alone (so none receives pending
\* text), each section gives one chunk whose text is the rendered text, the
\* heading line, a blank line and the content, with the heading line once,
\* and whose char_count is the length of that text.
C24_ChunkIsRenderedSectionOnce ==
    (/\ hpc = "done"
     /\ \A i \in 1..Len(hout.sections) : StandsAlone(hout.sections[i], hin.max_chunk_size)) =>
        /\ Len(hout.chunks) = Len(hout.sections)
        /\ \A i \in 1..Len(hout.sections) :
               /\ hout.chunks[i].text = Rendered(hout.sections[i])
               /\ CountOf(hout.chunks[i].text, HeadingLine(hout.sections[i]) \o <<"\n">>)
                      = CountOf(hout.sections[i].content, HeadingLine(hout.sections[i]) \o <<"\n">>) + 1
               /\ hout.chunks[i].metadata[K_char_count] = MInt(Len(hout.chunks[i].text))


\* C25: no two chunks of the chunk list of one note have the same ID,
\* whatever its headings (the same heading text twice under one parent,
\* headings that differ only in characters slugify removes).
C25_ChunkIdsOfAFileAreDistinct ==
    hpc = "done" =>
        \A i, j \in 1..Len(hout.chunks) :
            i # j => hout.chunks[i].chunk_id # hout.chunks[j].chunk_id


\* ------------------------------------------------------------------------
\* Imports of notes that are edited between the imports
\* ------------------------------------------------------------------------

\* a note under a heading, the note with the heading renamed, the note
\* without heading (one chunk) and with a second paragraph (two chunks)
NoteA == PieceHeadA \o PiecePara
NoteB == PieceHeadB \o PiecePara
NotePara == PiecePara
NoteTwo == PiecePara \o PiecePara
EditTexts == {NoteA, NoteB, NotePara, NoteTwo}

\* --chunk-size 60 --chunk-overlap 0: a chunk holds one paragraph
EditArgs ==
    {[Args(inc, <<>>, <<>>, <<>>) EXCEPT !.chunk_size = 60, !.chunk_overlap = 0] : inc \in BOOLEAN}

EditVaults ==
    { (FileC :> File(NoteA, 0, "none")) @@ (FileND :> File(NotePara, 0, "none")),
      (FileC :> File(NoteTwo, 0, "none")) @@ (FileND :> File(NoteB, 0, "none")) }

\* no import has run yet on one of the vaults
VaultInit(vaults) ==
    /\ fs \in vaults
    /\ state_file = StateFile("missing", EmptyState)
    /\ store = EmptyStore
    /\ pc = "idle"
    /\ args = NoArgs
    /\ files = <<>>
    /\ fi = 1
    /\ state = EmptyState
    /\ new_state = EmptyState
    /\ stats = ZeroStats
    /\ chunks = <<>>
    /\ batch_i = 0
    /\ runs = 0
    /\ nfail = 0
    /\ reads = {}
    /\ ups = <<>>
    /\ failed = {}
    /\ store0 = EmptyStore
    /\ state_file0 = state_file
    /\ last = NoRun
    /\ edited = {}
    /\ clock = 0
    /\ hin = <<>>
    /\ hout = <<>>
    /\ hpc = "off"

EditsInit == VaultInit(EditVaults)

EditsNext ==
    \/ \E a \in EditArgs : Discover(a)
    \/ FilterChanged
    \/ \E ok \in BOOLEAN : Connect(ok)
    \/ ParseFile
    \/ \E ok \in BOOLEAN : UpsertBatch(ok)
    \/ \E ok \in BOOLEAN : Finish(ok)
    \/ \E f \in {FileC, FileND}, text \in EditTexts : EditFile(f, text)

SpecEdits == EditsInit /\ [][EditsNext]_vars

\* the IDs of the chunk list of the note as it is now
CurrentIds(f) == {FileChunks(f)[i].chunk_id : i \in 1..Len(FileChunks(f))}

\* the IDs of the entries of the store that were written for the note
StoredIds(f) == {id \in DOMAIN store : OwnerOf(store[id]) = f}

\* the import that just ended sent every chunk of the note to the store
ImportedNow(f) ==
    /\ LoopFinished
    /\ f \notin edited
    /\ CallsFor(f) # {}
    /\ ~Raised(f)

\* C26: once a note has been imported again after an edit, the store holds
\* no entry written for the note that is not in its current chunk list.
C26_NoEntryOutsideCurrentChunkList ==
    \A f \in {FileC, FileND} :
        ImportedNow(f) => StoredIds(f) \subseteq CurrentIds(f)


\* ------------------------------------------------------------------------
\* Imports of a vault that is written while the import runs
\* ------------------------------------------------------------------------

RaceVaults ==
    { (FileC :> File(NotePara, 0, "none")) @@ (FileND :> File(NoteB, 0, "none")) }

RaceTexts == {NotePara, NoteTwo}

RaceInit == VaultInit(RaceVaults)

\* another program writes a note while the import runs
WriteDuringImport(f, text) ==
    /\ pc # "idle"
    /\ clock < MaxClock
    /\ fs[f].fault = "none"
    /\ text # fs[f].content
    /\ clock' = clock + 1
    /\ fs' = [fs EXCEPT ![f] = File(text, clock + 1, "none")]
    /\ UNCHANGED <<harness_vars, state_file, store, pc, args, files, fi, state, new_state, stats, chunks, batch_i, history_vars>>

\* another program takes a note away while the import runs and leaves a
\* link to nothing under its name: read_text and stat raise from now on
RemoveDuringImport(f) ==
    /\ pc # "idle"
    /\ fs[f].fault = "none"
    /\ fs' = [fs EXCEPT ![f] = File(fs[f].content, fs[f].mtime, "dangling")]
    /\ UNCHANGED <<clock, harness_vars, state_file, store, pc, args, files, fi, state, new_state, stats, chunks, batch_i, history_vars>>

RaceNext ==
    \/ \E a \in EditArgs : Discover(a)
    \/ FilterChanged
    \/ \E ok \in BOOLEAN : Connect(ok)
    \/ ParseFile
    \/ \E ok \in BOOLEAN : UpsertBatch(ok)
    \/ \E ok \in BOOLEAN : Finish(ok)
    \/ \E f \in {FileC, FileND}, text \in RaceTexts : WriteDuringImport(f, text)
    \/ \E f \in {FileC, FileND} : RemoveDuringImport(f)

SpecRace == RaceInit /\ [][RaceNext]_vars

\* the store holds every chunk of the note as it is now
StoreHoldsCurrent(f) ==
    \E list \in {FileChunks(f)} :
        \A i \in 1..Len(list) :
            /\ list[i].chunk_id \in DOMAIN store
            /\ store[list[i].chunk_id].document = list[i].text

\* C27: the mtime recorded in the state file for a note is the mtime of the
\* content that was read and upserted: after an incremental import, a note
\* whose recorded mtime is its present mtime has its present content in the
\* store, however the writes of another program fell between the steps of
\* the import.
C27_RecordedMtimeIsOfContentRead ==
    (LoopFinished /\ args.incremental) =>
        \A f \in DOMAIN load_state(state_file) :
            (fs[f].fault = "none" /\ load_state(state_file)[f] = fs[f].mtime) =>
                StoreHoldsCurrent(f)

\* the files the loop is done with
Handled == {files[k] : k \in 1..(fi - 1)}

\* the files whose state entry was set in this run
SetInRun == {f \in DOMAIN new_state : f \notin DOMAIN state \/ state[f] # new_state[f]}

\* C28: at every point of the per-file loop, the files counter and the
\* errors counter together do not exceed the number of files handled, and
\* the files counted as imported are those whose state entry was set in
\* this run.
C28_EachFileCountedOnce ==
    pc \in {"loop", "upsert"} =>
        /\ stats.files + stats.errors <= Cardinality(Handled)
        /\ stats.files = Cardinality(SetInRun)


\* the number of chunks in the first n upsert calls that returned
RECURSIVE ChunksUpserted(_)
ChunksUpserted(n) ==
    IF n = 0 THEN 0
    ELSE ChunksUpserted(n - 1) + (IF ups[n].ok THEN Len(ups[n].ids) ELSE 0)

\* C29: the chunks count of the summary is the number of chunks passed to
\* upsert calls that returned, and a file counted as an error has put no
\* chunk into the store in this run.
C29_ReportedChunksAreChunksUpserted ==
    LoopFinished =>
        /\ \A r \in last.reported : r.count = "chunks" => r.value = ChunksUpserted(Len(ups))
        /\ \A f \in last.failed : \A i \in CallsFor(f) : ~ups[i].ok


\* ------------------------------------------------------------------------
\* From the sections of a body to the chunk texts: the splitter, the merger
\* and chunk_text on the text of each merged section; and chunk_text alone
\* on every short text
\* ------------------------------------------------------------------------

BodyInputs ==
    {[kind |-> "note", outline |-> o, text |-> <<>>, max_size |-> 60, overlap |-> 0] :
        o \in Outlines}
    \cup {[kind |-> "text", outline |-> <<>>, text |-> t, max_size |-> m, overlap |-> v] :
        t \in ChunkTexts, m \in ChunkSizes, v \in ChunkOverlaps}

BodyInit ==
    /\ hin \in BodyInputs
    /\ hout = [sections |-> <<>>, merged |-> <<>>, texts |-> <<>>, chunks |-> <<>>]
    /\ hpc = "ready"
    /\ clock = 0
    /\ DriverOff

\* parse_file, line 536
BodySplit ==
    /\ hpc = "ready"
    /\ hin.kind = "note"
    /\ hout' = [hout EXCEPT !.sections = split_into_sections(OutlineText(hin.outline, 1))]
    /\ hpc' = "split"
    /\ UNCHANGED <<clock, hin, driver_vars, history_vars>>

\* sections_to_chunks, lines 359-387
BodyMerge ==
    /\ hpc = "split"
    /\ hout' = [hout EXCEPT !.merged = merge_sections(hout.sections)]
    /\ hpc' = "merged"
    /\ UNCHANGED <<clock, hin, driver_vars, history_vars>>

\* sections_to_chunks, lines 389-400: the stripped text of each merged
\* section goes through chunk_text; for a text alone, chunk_text on it
BodyChunk ==
    /\ \/ hpc = "merged"
       \/ hpc = "ready" /\ hin.kind = "text"
    /\ \E texts \in {IF hin.kind = "text" THEN <<hin.text>>
                     ELSE [j \in 1..Len(hout.merged) |-> Strip(section_text(hout.merged[j]))]} :
           hout' = [hout EXCEPT !.texts = texts,
                                !.chunks = [j \in 1..Len(texts) |->
                                               chunk_text(texts[j], hin.max_size, hin.overlap)]]
    /\ hpc' = "done"
    /\ UNCHANGED <<clock, hin, driver_vars, history_vars>>

BodyNext == BodySplit \/ BodyMerge \/ BodyChunk

SpecBody == BodyInit /\ [][BodyNext]_vars

\* the first of the texts from position from on that holds the item, 0 if
\* none does
PlaceOf(item, texts, from) ==
    LET at == {k \in from..Len(texts) : Contains(texts[k], item)}
    IN  IF at = {} THEN 0 ELSE SetMin(at)

\* each item is held by one of the texts, at places that never go back
RECURSIVE HeldInOrder(_, _, _)
HeldInOrder(items, texts, from) ==
    IF items = <<>> THEN TRUE
    ELSE /\ PlaceOf(Head(items), texts, from) # 0
         /\ HeldInOrder(Tail(items), texts, PlaceOf(Head(items), texts, from))

StripEachText(items) == [k \in 1..Len(items) |-> Strip(items[k])]

\* what chunk_text must keep of a text: its paragraphs, and for a
\* paragraph longer than max_size its sentences
RECURSIVE PartsOf(_, _)
PartsOf(paragraphs, max_size) ==
    IF paragraphs = <<>> THEN <<>>
    ELSE (IF Len(Head(paragraphs)) <= max_size THEN <<Head(paragraphs)>>
          ELSE split_sentences(Head(paragraphs)))
         \o PartsOf(Tail(paragraphs), max_size)

\* the rendered texts of the split sections are held, in order, by the
\* texts of the merged sections
SectionsKept ==
    hin.kind = "note" =>
        HeldInOrder(SelectSeq([i \in 1..Len(hout.sections) |-> Strip(section_text(hout.sections[i]))], IsNonEmpty),
                    [j \in 1..Len(hout.merged) |-> section_text(hout.merged[j])], 1)

\* C30 as stated: the stripped rendered text of every split section is held,
\* in document order, by a merged section, and every paragraph of a text
\* given to chunk_text (every sentence of a paragraph split by sentences) is
\* held, as it stands, by a returned chunk, in document order.
C30_EveryParagraphInAChunk ==
    /\ hpc \in {"merged", "done"} => SectionsKept
    /\ hpc = "done" =>
           \A j \in 1..Len(hout.texts) :
               HeldInOrder(SelectSeq(PartsOf(Split(hout.texts[j], ParaSep), hin.max_size), IsNonEmpty),
                           hout.chunks[j], 1)

\* C30, amended: the same, with each paragraph or sentence held without its
\* leading and trailing whitespace.
C30_EveryStrippedParagraphInAChunk ==
    /\ hpc \in {"merged", "done"} => SectionsKept
    /\ hpc = "done" =>
           \A j \in 1..Len(hout.texts) :
               HeldInOrder(SelectSeq(StripEachText(PartsOf(Split(hout.texts[j], ParaSep), hin.max_size)), IsNonEmpty),
                           hout.chunks[j], 1)

\* C30 witness: a text cut into more than one chunk, with a paragraph that
\* no chunk holds as it stands and that a chunk holds without its
\* surrounding whitespace
C30_Witness ==
    /\ hpc = "done"
    /\ hin.kind = "text"
    /\ Len(hout.chunks[1]) > 1
    /\ \E k \in 1..Len(Split(hin.text, ParaSep)) :
           LET para == Split(hin.text, ParaSep)[k]
           IN  /\ Len(para) <= hin.max_size
               /\ Strip(para) # <<>>
               /\ PlaceOf(para, hout.chunks[1], 1) = 0
               /\ PlaceOf(Strip(para), hout.chunks[1], 1) # 0

====
